---- MODULE Spec2Model ----
(***************************************************************************)
(* Model of the statement-extraction services of shopping-expense-tracker: *)
(*   src/ai-server/main.py   POST /parse-document and what it calls        *)
(*   src/pdf-service/app.py  extract_transactions_from_text                *)
(*                                                                         *)
(* Strings are sequences of one-character strings, so that every regular   *)
(* expression, substring test, slice and replace of the source is computed *)
(* character by character.  Amounts are held in hundredths (the patterns   *)
(* of main.py admit at most two decimals, so float(cell) = cents / 100).   *)
(***************************************************************************)
EXTENDS Integers, Sequences, FiniteSets, TLC

\* None, for an optional string (a string is a sequence of characters)
NULL == "NULL"
\* None, for an optional record or tuple
None == <<>>
\* None, for an optional amount: is_amount yields no value <= 0, and the source
\* tests amounts by truth value, under which None and 0 are alike
NoAmount == 0

\* ------------------------------------------------------------------------
\* Characters
\* ------------------------------------------------------------------------
UpperSeq == <<"A","B","C","D","E","F","G","H","I","J","K","L","M",
              "N","O","P","Q","R","S","T","U","V","W","X","Y","Z">>
LowerSeq == <<"a","b","c","d","e","f","g","h","i","j","k","l","m",
              "n","o","p","q","r","s","t","u","v","w","x","y","z">>
DigitSeq == <<"0","1","2","3","4","5","6","7","8","9">>

Range(f) == { f[k] : k \in DOMAIN f }

Upper  == Range(UpperSeq)
Lower  == Range(LowerSeq)
Letter == Upper \cup Lower
Digit  == Range(DigitSeq)
\* Python's \s on the characters a statement can hold
Space  == {" ", "\t", "\n", "\r"}
\* the rupee sign U+20A8, one character
Rupee  == "RUPEE"

\* str.lower() on one character
LowerChar(c) ==
    IF c \in Upper THEN LowerSeq[CHOOSE k \in 1..26 : UpperSeq[k] = c] ELSE c

\* str.upper() on one character
UpperChar(c) ==
    IF c \in Lower THEN UpperSeq[CHOOSE k \in 1..26 : LowerSeq[k] = c] ELSE c

\* str.lower()
LowerStr(s) == [k \in DOMAIN s |-> LowerChar(s[k])]

\* int(c) of a digit character
DigitVal(c) == (CHOOSE k \in 1..10 : DigitSeq[k] = c) - 1

Min(a, b) == IF a <= b THEN a ELSE b
Max(a, b) == IF a >= b THEN a ELSE b
SetMax(S) == CHOOSE x \in S : \A y \in S : y <= x
SetMin(S) == CHOOSE x \in S : \A y \in S : x <= y

\* s[:n]
Take(s, n) == SubSeq(s, 1, Min(n, Len(s)))
\* s[n:] with n counted from 0
Drop(s, n) == SubSeq(s, n + 1, Len(s))

\* sub in s
StartsAt(s, sub, i) ==
    /\ i + Len(sub) - 1 <= Len(s)
    /\ \A k \in 1..Len(sub) : s[i + k - 1] = sub[k]
Contains(s, sub) == \E i \in 1..(Len(s) + 1) : StartsAt(s, sub, i)

\* 1, 2, ..., Len(s)
Indexes(s) == [k \in 1..Len(s) |-> k]

\* re.sub(r'^[cs]+', '', s): the leading characters of cs removed
LStripSet(s, cs) ==
    LET keep == { k \in 1..Len(s) : s[k] \notin cs }
    IN  IF keep = {} THEN <<>> ELSE SubSeq(s, SetMin(keep), Len(s))
\* re.sub(r'[cs]+$', '', s): the trailing characters of cs removed
RStripSet(s, cs) ==
    LET keep == { k \in 1..Len(s) : s[k] \notin cs }
    IN  IF keep = {} THEN <<>> ELSE SubSeq(s, 1, SetMax(keep))
\* str.strip(): leading and trailing whitespace removed
Strip(s) == RStripSet(LStripSet(s, Space), Space)

\* the element of a set of one element
The(S) == CHOOSE x \in S : TRUE

\* sep.join(parts)
RECURSIVE Join(_, _)
Join(sep, parts) ==
    IF parts = <<>> THEN <<>>
    ELSE IF Len(parts) = 1 THEN parts[1]
    ELSE parts[1] \o sep \o Join(sep, Tail(parts))

\* ------------------------------------------------------------------------
\* Regular expressions (module re).  A pattern is a tree; ReEnds(r, s, i) is
\* the set of positions j at which a match of r that starts at position i of
\* s can end (s[i..j-1] is the matched text).
\* ------------------------------------------------------------------------
In(cs)         == [t |-> "in", cs |-> cs]               \* [...]
NotIn(cs)      == [t |-> "notin", cs |-> cs]            \* [^...]
Cat(rs)        == [t |-> "cat", rs |-> rs]              \* r1 r2 ...
Alt(rs)        == [t |-> "alt", rs |-> rs]              \* r1 | r2 | ...
Rep(r, lo, hi) == [t |-> "rep", r |-> r, lo |-> lo, hi |-> hi]  \* r{lo,hi}; hi = -1: no limit
Bol            == [t |-> "bol"]                         \* ^
Eol            == [t |-> "eol"]                         \* $
Star(r)        == Rep(r, 0, -1)
Plus(r)        == Rep(r, 1, -1)
Opt(r)         == Rep(r, 0, 1)
Ch(c)          == In({c})
\* a literal, case-sensitive
Lit(w)         == Cat([k \in DOMAIN w |-> In({w[k]})])
\* a literal under re.IGNORECASE
LitI(w)        == Cat([k \in DOMAIN w |-> In({LowerChar(w[k]), UpperChar(w[k])})])
AnyOfI(ws)     == Alt([k \in DOMAIN ws |-> LitI(ws[k])])
AnyOf(ws)      == Alt([k \in DOMAIN ws |-> Lit(ws[k])])
D              == In(Digit)                             \* \d
Sp             == In(Space)                             \* \s
NonSp          == NotIn(Space)                          \* \S
Dot            == NotIn({"\n"})                         \* .
AZ             == In(Letter)                            \* [a-zA-Z], and [a-z] or [A-Z] under IGNORECASE

RECURSIVE ReEnds(_, _, _)
ReEnds(r, s, i) ==
    CASE r.t = "in"    -> IF i <= Len(s) /\ s[i] \in r.cs THEN {i + 1} ELSE {}
      [] r.t = "notin" -> IF i <= Len(s) /\ s[i] \notin r.cs THEN {i + 1} ELSE {}
      [] r.t = "bol"   -> IF i = 1 THEN {i} ELSE {}
      [] r.t = "eol"   -> IF i = Len(s) + 1 \/ (i = Len(s) /\ s[i] = "\n") THEN {i} ELSE {}
      [] r.t = "alt"   -> UNION { ReEnds(r.rs[k], s, i) : k \in DOMAIN r.rs }
      [] r.t = "cat"   ->
            IF r.rs = <<>> THEN {i}
            ELSE UNION { ReEnds(Cat(Tail(r.rs)), s, j) : j \in ReEnds(Head(r.rs), s, i) }
      [] r.t = "rep"   ->
            (IF r.lo = 0 THEN {i} ELSE {})
            \cup (IF r.hi = 0 THEN {}
                  ELSE UNION { ReEnds(Rep(r.r, Max(r.lo - 1, 0),
                                          IF r.hi = -1 THEN -1 ELSE r.hi - 1), s, j)
                               : j \in ReEnds(r.r, s, i) \ {i} })

\* re.match(r, s) is not None
ReMatch(r, s) == ReEnds(r, s, 1) # {}
\* re.search(r, s) is not None
ReSearch(r, s) == \E i \in 1..(Len(s) + 1) : ReEnds(r, s, i) # {}


\* the three-letter month abbreviations every date pattern of the source lists
Months == << <<"J","a","n">>, <<"F","e","b">>, <<"M","a","r">>, <<"A","p","r">>,
             <<"M","a","y">>, <<"J","u","n">>, <<"J","u","l">>, <<"A","u","g">>,
             <<"S","e","p">>, <<"O","c","t">>, <<"N","o","v">>, <<"D","e","c">> >>
\* (?:Jan|Feb|...|Dec) under re.IGNORECASE
Mon == AnyOfI(Months)
Euro == "EURO"

\* re.findall(r'[a-zA-Z]+', s): the maximal runs of letters, in order
LetterWords(s) ==
    LET IsStart(k) == s[k] \in Letter /\ (k = 1 \/ s[k - 1] \notin Letter)
        st == SelectSeq(Indexes(s), IsStart)
        End(k) == SetMax({ e \in k..Len(s) : \A j \in k..e : s[j] \in Letter })
    IN  [j \in 1..Len(st) |-> SubSeq(s, st[j], End(st[j]))]

\* ------------------------------------------------------------------------
\* is_valid_description                                  main.py 110-171
\* ------------------------------------------------------------------------
\* month_pattern (main.py 129)
month_pattern ==
    Cat(<< Alt(<< Cat(<<LitI(<<"J","a","n">>), Opt(LitI(<<"u","a","r","y">>))>>),
                  Cat(<<LitI(<<"F","e","b">>), Opt(LitI(<<"r","u","a","r","y">>))>>),
                  Cat(<<LitI(<<"M","a","r">>), Opt(LitI(<<"c","h">>))>>),
                  Cat(<<LitI(<<"A","p","r">>), Opt(LitI(<<"i","l">>))>>),
                  LitI(<<"M","a","y">>),
                  Cat(<<LitI(<<"J","u","n">>), Opt(LitI(<<"e">>))>>),
                  Cat(<<LitI(<<"J","u","l">>), Opt(LitI(<<"y">>))>>),
                  Cat(<<LitI(<<"A","u","g">>), Opt(LitI(<<"u","s","t">>))>>),
                  Cat(<<LitI(<<"S","e","p">>),
                        Opt(Cat(<<LitI(<<"t">>), Opt(LitI(<<"e","m","b","e","r">>))>>))>>),
                  Cat(<<LitI(<<"O","c","t">>), Opt(LitI(<<"o","b","e","r">>))>>),
                  Cat(<<LitI(<<"N","o","v">>), Opt(LitI(<<"e","m","b","e","r">>))>>),
                  Cat(<<LitI(<<"D","e","c">>), Opt(LitI(<<"e","m","b","e","r">>))>>) >>),
           Opt(Cat(<<Star(Sp), Rep(D, 0, 4)>>)), Eol >>)

AmPm == AnyOfI(<< <<"A","M">>, <<"P","M">> >>)

\* fragment_patterns (main.py 134-157), in the order of the list, each under
\* re.IGNORECASE
fragment_patterns == <<
    Cat(<<Ch(":"), Star(Sp), Opt(AmPm), Star(Sp), Eol>>),
    Cat(<<Ch(":"), Star(Sp), Rep(NonSp, 1, 4), Star(Sp), Eol>>),
    Cat(<<Star(Sp), Ch(":"), Star(Sp), Rep(Dot, 0, 5), Eol>>),
    Cat(<<LitI(<<"P","h","o","n","e",":">>), Star(Sp), Opt(Ch("(")), Star(Sp),
          Opt(Ch(")")), Star(Sp), Eol>>),
    Cat(<<Rep(D, 1, 2), Ch(":"), Rep(D, 2, 2), Star(Sp), Opt(AmPm), Eol>>),
    Cat(<<Plus(In(Space \cup {"-", ":", ".", ",", ";", "/", "\\"})), Eol>>),
    Cat(<<AmPm, Star(Sp), Eol>>),
    Cat(<<Ch("("), Star(Sp), Ch(")"), Star(Sp), Eol>>),
    Cat(<<Star(NotIn(Letter)), Eol>>),
    Cat(<<Plus(D), Eol>>),
    Cat(<<Rep(AZ, 1, 3), Star(Sp), Star(D), Eol>>),
    Cat(<<Rep(D, 1, 2), In({"-", "/"}), Rep(D, 1, 2),
          Opt(Cat(<<In({"-", "/"}), Rep(D, 2, 4)>>)), Eol>>),
    Cat(<<Rep(D, 1, 2), Star(Sp), Mon, Star(AZ), Eol>>),
    Cat(<<Mon, Star(AZ), Star(Sp), Rep(D, 0, 4), Eol>>),
    Cat(<<Rep(AZ, 1, 4), Eol>>),
    Cat(<<Plus(D), Star(Sp), AmPm, Eol>>),
    Cat(<<Alt(<<LitI(<<"P","K","R">>), Cat(<<LitI(<<"R","s">>), Opt(Ch("."))>>),
                LitI(<<"U","S","D">>), Ch("$"), LitI(<<"E","U","R">>), Ch(Euro)>>),
          Star(Sp), Eol>>),
    Cat(<<LitI(<<"O","T","H","E","R">>), Star(Sp), Eol>>),
    Cat(<<LitI(<<"N">>), Opt(Ch("/")), LitI(<<"A">>), Star(Sp), Eol>>),
    Cat(<<Star(Sp), Plus(Ch("-")), Star(Sp), Eol>>),
    Cat(<<AnyOfI(<< <<"D","e","b","i","t">>, <<"C","r","e","d","i","t">>,
                    <<"D","R">>, <<"C","R">> >>), Star(Sp), Eol>>),
    Cat(<<Rep(D, 4, -1), Eol>>) >>

\* MeaningfulContent as the comment of main.py 166 has it: three words of 3 letters
MeaningfulThreeWords(desc) ==
    LET words == LetterWords(desc)
    IN  \/ \E k \in DOMAIN words : Len(words[k]) >= 5
        \/ Cardinality({k \in DOMAIN words : Len(words[k]) >= 3}) >= 3

\* the word heuristic of main.py 163-169, on the stripped text
MeaningfulContent(desc) ==
    LET words == LetterWords(desc)
    IN  \/ \E k \in DOMAIN words : Len(words[k]) >= 5
        \/ Cardinality({k \in DOMAIN words : Len(words[k]) >= 3}) >= 2

is_valid_description(text) ==
    LET desc == Strip(text)
    IN  /\ text # <<>>
        /\ Len(desc) >= 6
        /\ ReSearch(Rep(AZ, 4, -1), desc)
        /\ ~ReMatch(month_pattern, desc)
        /\ \A k \in DOMAIN fragment_patterns : ~ReMatch(fragment_patterns[k], desc)
        /\ MeaningfulContent(desc)

\* ------------------------------------------------------------------------
\* String helpers for the re.sub and str.replace calls of the source
\* ------------------------------------------------------------------------
\* re.sub(r'[cs]+', ch, s): every maximal run of characters of cs becomes the
\* one character ch
SubRuns(s, cs, ch) ==
    LET Keep(k) == s[k] \notin cs \/ k = 1 \/ s[k - 1] \notin cs
        idx == SelectSeq(Indexes(s), Keep)
    IN  [j \in 1..Len(idx) |-> IF s[idx[j]] \in cs THEN ch ELSE s[idx[j]]]
\* s.replace(old, with) for a non-empty old: every occurrence, left to right,
\* without overlap
RECURSIVE Replace(_, _, _)
Replace(s, old, with) ==
    LET starts == { i \in 1..Len(s) : StartsAt(s, old, i) }
    IN  IF old = <<>> \/ starts = {} THEN s
        ELSE SubSeq(s, 1, SetMin(starts) - 1) \o with
             \o Replace(Drop(s, SetMin(starts) + Len(old) - 1), old, with)
\* the characters of s that are not in cs
Without(s, cs) ==
    LET Keep(c) == c \notin cs
    IN  SelectSeq(s, Keep)

\* int(s) of a string of digits
RECURSIVE DigitsVal(_)
DigitsVal(s) == IF s = <<>> THEN 0 ELSE DigitsVal(SubSeq(s, 1, Len(s) - 1)) * 10 + DigitVal(s[Len(s)])

\* float(s), in hundredths, of a string that matches \d+(\.\d{1,2})?
Cents(s) ==
    IF \E k \in DOMAIN s : s[k] = "."
    THEN LET k == CHOOSE k \in DOMAIN s : s[k] = "."
             frac == Drop(s, k)
         IN  DigitsVal(SubSeq(s, 1, k - 1)) * 100
             + (IF Len(frac) = 1 THEN DigitsVal(frac) * 10 ELSE DigitsVal(frac))
    ELSE DigitsVal(s) * 100

\* ------------------------------------------------------------------------
\* parse_table_transactions: the cell classifiers        main.py 186-235
\* ------------------------------------------------------------------------
Sep == In({"-", "/"})
\* DATE_PATTERNS (main.py 187-192): the capturing group of each, and whether
\* the pattern ends with $
DATE_PATTERNS == <<
    [g |-> Cat(<<Rep(D, 1, 2), Sep, Rep(D, 1, 2), Sep, Rep(D, 2, 4)>>), eol |-> TRUE],
    [g |-> Cat(<<Rep(D, 1, 2), Plus(Sp), Mon, Star(AZ),
                 Opt(Cat(<<Plus(Sp), Rep(D, 2, 4)>>))>>), eol |-> TRUE],
    [g |-> Cat(<<Rep(D, 4, 4), Sep, Rep(D, 2, 2), Sep, Rep(D, 2, 2)>>), eol |-> TRUE],
    [g |-> Cat(<<Rep(D, 1, 2),
                 Opt(AnyOfI(<< <<"s","t">>, <<"n","d">>, <<"r","d">>, <<"t","h">> >>)),
                 Plus(Sp), Mon, Star(AZ)>>), eol |-> FALSE] >>

\* the positions at which group 1 of date pattern p can end in a match of the cell
DateGroupEnds(p, cell) ==
    { j \in ReEnds(p.g, cell, 1) : ~p.eol \/ ReEnds(Eol, cell, j) # {} }

\* re.match(pattern, cell, re.IGNORECASE).group(1) over DATE_PATTERNS in order,
\* NULL when no pattern matches.  Every quantifier is greedy and nothing
\* follows the group but $, so the group ends at the last possible position.
CellDate(cell) ==
    LET hits == { k \in DOMAIN DATE_PATTERNS : DateGroupEnds(DATE_PATTERNS[k], cell) # {} }
    IN  IF hits = {} THEN NULL
        ELSE SubSeq(cell, 1, SetMax(DateGroupEnds(DATE_PATTERNS[SetMin(hits)], cell)) - 1)

\* find_date_in_row (main.py 194-204): the date of the first cell that holds one
find_date_in_row(row) ==
    LET ok == { k \in DOMAIN row : Len(row[k]) >= 4 /\ CellDate(Strip(row[k])) # NULL }
    IN  IF ok = {} THEN NULL ELSE CellDate(Strip(row[SetMin(ok)]))

\* the characters re.sub(r'^[Rs.PKR₨\s]+', ..., flags=re.IGNORECASE) removes
CurrencyChars == {"R", "r", "S", "s", ".", "P", "p", "K", "k", Rupee} \cup Space

AmountShape == Cat(<<Plus(D), Opt(Cat(<<Ch("."), Rep(D, 1, 2)>>)), Eol>>)

\* is_amount (main.py 206-219): the value in hundredths, NoAmount for None
is_amount(cell) ==
    LET c == LStripSet(Without(Strip(cell), {",", " "}), CurrencyChars)
    IN  IF cell = <<>> THEN NoAmount
        ELSE IF ReMatch(AmountShape, c)
             THEN (IF Cents(RStripSet(c, {"\n"})) > 0 THEN Cents(RStripSet(c, {"\n"})) ELSE NoAmount)
             ELSE NoAmount

\* is_text_cell (main.py 221-235)
is_text_cell(cell) ==
    LET c == Strip(cell)
    IN  /\ Len(cell) >= 3
        /\ ReSearch(Rep(AZ, 3, -1), c)
        /\ ~ReMatch(Cat(<<Plus(In(Digit \cup {","})), Opt(Cat(<<Ch("."), Rep(D, 1, 2)>>)), Eol>>),
                    Without(c, {","}))
        /\ ~ReMatch(Cat(<<Rep(D, 1, 2), Ch(":"), Rep(D, 2, 2), Star(Sp), Opt(AmPm), Eol>>), c)

\* ------------------------------------------------------------------------
\* parse_table_transactions: column roles and rows      main.py 237-331
\* ------------------------------------------------------------------------
\* any(kw in s for kw in kws)
ContainsAny(s, kws) == \E k \in DOMAIN kws : Contains(s, kws[k])

\* ' '.join(lower-cased cells) (main.py 243)
RowStr(row) == Join(<<" ">>, [k \in DOMAIN row |-> LowerStr(row[k])])

\* the header signature of the first pass (main.py 244)
IsHeaderRow(row) ==
    /\ row # <<>>
    /\ ContainsAny(RowStr(row), << <<"d","a","t","e">>, <<"d","e","s","c","r","i","p","t","i","o","n">>, <<"d","e","b","i","t">> >>)

\* the role a header cell gives its column (main.py 247-252)
CellRole(cell) ==
    LET c == LowerStr(cell)
    IN  IF ContainsAny(c, << <<"d","e","b","i","t">>, <<"w","i","t","h","d","r","a","w","a","l">> >>) THEN "debit"
        ELSE IF ContainsAny(c, << <<"c","r","e","d","i","t">>, <<"d","e","p","o","s","i","t">> >>) THEN "credit"
        ELSE IF Contains(c, <<"b","a","l","a","n","c","e">>) THEN "balance"
        ELSE "none"

\* the 0-based index of the last cell of the header row with the role, -1 if none
RoleCol(row, role) ==
    LET ks == { k \in DOMAIN row : CellRole(row[k]) = role }
    IN  IF ks = {} THEN -1 ELSE SetMax(ks) - 1

\* InferColumns with `break` forgotten: the last row with the header signature
\* decides
InferColumnsNoBreak(tbl) ==
    LET hs == { k \in DOMAIN tbl : IsHeaderRow(tbl[k]) }
    IN  IF hs = {} THEN [debit |-> -1, credit |-> -1, balance |-> -1]
        ELSE LET h == tbl[SetMax(hs)]
             IN  [debit |-> RoleCol(h, "debit"), credit |-> RoleCol(h, "credit"),
                  balance |-> RoleCol(h, "balance")]

\* the first pass (main.py 238-253): the first row with the header signature
\* decides the three columns, and the scan stops there
InferColumns(tbl) ==
    LET hs == { k \in DOMAIN tbl : IsHeaderRow(tbl[k]) }
    IN  IF hs = {} THEN [debit |-> -1, credit |-> -1, balance |-> -1]
        ELSE LET h == tbl[SetMin(hs)]
             IN  [debit |-> RoleCol(h, "debit"), credit |-> RoleCol(h, "credit"),
                  balance |-> RoleCol(h, "balance")]

\* main.py 265
CleanRow(row) == [k \in DOMAIN row |-> Strip(row[k])]

skip_keywords == <<
    <<"d","a","t","e">>,
    <<"d","e","s","c","r","i","p","t","i","o","n">>,
    <<"p","a","r","t","i","c","u","l","a","r">>,
    <<"d","e","b","i","t">>,
    <<"c","r","e","d","i","t">>,
    <<"n","a","r","r","a","t","i","o","n">>,
    <<"o","p","e","n","i","n","g">>,
    <<"c","l","o","s","i","n","g">>,
    <<"b","a","l","a","n","c","e"," ","b","/","f">>,
    <<"t","o","t","a","l">>,
    <<"p","a","g","e">> >>

\* main.py 261, 266-276, on the cleaned row: the row is not processed
IsSkippedRow(row) ==
    \/ row = <<>>
    \/ ContainsAny(LowerStr(Join(<<" ">>, row)), skip_keywords)
    \/ \A k \in DOMAIN row : row[k] = <<>>

\* main.py 282-286: (0-based column, value) of every cell that is an amount
RECURSIVE RowAmountsFrom(_, _)
RowAmountsFrom(row, k) ==
    IF k > Len(row) THEN <<>>
    ELSE (IF is_amount(row[k]) # NoAmount THEN << <<k - 1, is_amount(row[k])>> >> ELSE <<>>)
         \o RowAmountsFrom(row, k + 1)
RowAmounts(row) == RowAmountsFrom(row, 1)

\* main.py 289
TextParts(row) == SelectSeq(row, is_text_cell)

\* the first element of a sequence that satisfies Ok, None if none
FirstWhere(seq, Ok(_)) ==
    LET ks == { k \in DOMAIN seq : Ok(seq[k]) }
    IN  IF ks = {} THEN None ELSE seq[SetMin(ks)]

\* the sanity ceiling of main.py 319, in hundredths
SanityCeiling == 1000000
CeilingCents == SanityCeiling * 100

\* main.py 297-321: the transaction a dated row opens
OpenTx(tx_date, text_parts, amounts, cols) ==
    LET base == [date |-> tx_date, description_parts |-> text_parts,
                 amount |-> NoAmount, type |-> "expense"]
        InRole(a) == a[1] = cols.debit \/ a[1] = cols.credit
        Plain(a)  == a[1] # cols.balance /\ a[2] < CeilingCents
    IN  IF amounts = <<>> THEN base
        ELSE IF cols.debit >= 0 /\ cols.credit >= 0
        THEN LET a == FirstWhere(amounts, InRole)
             IN  IF a = None THEN base
                 ELSE [base EXCEPT !.amount = a[2],
                                   !.type = IF a[1] = cols.debit THEN "expense" ELSE "income"]
        ELSE LET a == FirstWhere(amounts, Plain)
             IN  IF a = None THEN base ELSE [base EXCEPT !.amount = a[2]]

\* ContinueTx with `not current_tx.get('amount')` forgotten: a later row
\* replaces the amount
ContinueTxOverwrites(tx, text_parts, amounts, cols) ==
    LET NotBalance(a) == a[1] # cols.balance
        a == FirstWhere(amounts, NotBalance)
        ext == [tx EXCEPT !.description_parts = @ \o text_parts]
    IN  IF a # None THEN [ext EXCEPT !.amount = a[2]] ELSE ext

\* main.py 324-331: a row without a date, added to the open transaction
ContinueTx(tx, text_parts, amounts, cols) ==
    LET NotBalance(a) == a[1] # cols.balance
        a == FirstWhere(amounts, NotBalance)
        ext == [tx EXCEPT !.description_parts = @ \o text_parts]
    IN  IF tx.amount = NoAmount /\ a # None THEN [ext EXCEPT !.amount = a[2]] ELSE ext

\* HasAmount with the test of the amount forgotten: `if current_tx:`
IsOpen(tx) == tx # None

\* main.py 293, 334: `current_tx and current_tx.get('amount')`
HasAmount(tx) == tx # None /\ tx.amount # NoAmount

\* ------------------------------------------------------------------------
\* parse_table_transactions: the post-processing loop    main.py 341-391
\* ------------------------------------------------------------------------
\* str(n) of a natural number
RECURSIVE IntStr(_)
IntStr(n) == IF n < 10 THEN <<DigitSeq[n + 1]>> ELSE IntStr(n \div 10) \o <<DigitSeq[(n % 10) + 1]>>

\* str(x) of the float x = cents / 100 below 1e16, as an f-string formats it:
\* 500.0 -> "500.0", 17.5 -> "17.5", 12.34 -> "12.34"; a negative value (only
\* a collaborator can supply one) carries its sign
FloatStr(cents) ==
    LET a == IF cents < 0 THEN 0 - cents ELSE cents
        f == a % 100
    IN  (IF cents < 0 THEN <<"-">> ELSE <<>>) \o IntStr(a \div 100) \o <<".">>
        \o (IF f % 10 = 0 THEN IntStr(f \div 10) ELSE IntStr(f \div 10) \o IntStr(f % 10))

\* f"{description[:30]}_{amount}" (main.py 362, 626)
DedupPrefixLen == 30
tx_key(description, amount) == Take(description, DedupPrefixLen) \o <<"_">> \o FloatStr(amount)

\* the description limit of main.py 386 and 610
MaxDescription == 100

\* main.py 343-349: the fragments joined and cleaned
TableDescription(tx) ==
    LET joined == Strip(Join(<<" ">>, tx.description_parts))
        one == SubRuns(joined, Space, " ")
    IN  RStripSet(LStripSet(one, {":", "-"} \cup Space), {":", "-"} \cup Space)

\* the keyword table of main.py 370-379, in the order of the if/elif chain
TableCategories == <<
    [name |-> "Food", words |-> << <<"f","o","o","d">>, <<"r","e","s","t","a","u","r","a","n","t">>, <<"c","a","f","e">>,
                                     <<"p","i","z","z","a">>, <<"k","f","c">>, <<"m","c","d","o","n","a","l","d">>,
                                     <<"e","a","t">> >>],
    [name |-> "Shopping", words |-> << <<"a","m","a","z","o","n">>, <<"s","h","o","p">>, <<"s","t","o","r","e">>,
                                         <<"m","a","l","l">>, <<"d","a","r","a","z">>, <<"p","u","r","c","h","a","s","e">> >>],
    [name |-> "Transport", words |-> << <<"u","b","e","r">>, <<"c","a","r","e","e","m">>, <<"f","u","e","l">>,
                                          <<"p","e","t","r","o","l">>, <<"b","u","s">>, <<"m","e","t","r","o">>,
                                          <<"t","r","a","n","s","p","o","r","t">> >>],
    [name |-> "Utilities", words |-> << <<"e","l","e","c","t","r","i","c">>, <<"g","a","s">>, <<"w","a","t","e","r">>,
                                          <<"i","n","t","e","r","n","e","t">>, <<"p","t","c","l">>, <<"j","a","z","z">>,
                                          <<"z","o","n","g">>, <<"b","i","l","l">> >>],
    [name |-> "Transfer", words |-> << <<"t","r","a","n","s","f","e","r">>, <<"s","e","n","t"," ","t","o">>, <<"r","e","c","e","i","v","e","d"," ","f","r","o","m">> >>] >>

\* the last matching entry of the table instead of the first
CategorizeLastMatch(cats, description) ==
    LET d == LowerStr(description)
        ks == { k \in DOMAIN cats : ContainsAny(d, cats[k].words) }
    IN  IF ks = {} THEN "Other" ELSE cats[SetMax(ks)].name

\* the first category of the table one of whose words is in the lower-cased
\* description, else "Other"
Categorize(cats, description) ==
    LET d == LowerStr(description)
        ks == { k \in DOMAIN cats : ContainsAny(d, cats[k].words) }
    IN  IF ks = {} THEN "Other" ELSE cats[SetMin(ks)].name

\* main.py 382-383
TableIncomeWords == << <<"c","r","e","d","i","t">>, <<"r","e","c","e","i","v","e","d">>, <<"d","e","p","o","s","i","t">>,
                       <<"i","n","c","o","m","i","n","g">>, <<"s","a","l","a","r","y">>, <<"r","e","f","u","n","d">> >>

\* main.py 352, 357-359: the closed transaction passes the validator and has
\* an amount
TableAccepts(tx) ==
    /\ \E description \in {TableDescription(tx)} : is_valid_description(description)
    /\ tx.amount # NoAmount /\ tx.amount > 0

\* main.py 385-391: the transaction emitted for a closed one
TableTransaction(tx) ==
    The({ [description |-> Take(description, MaxDescription),
           amount |-> tx.amount,
           date |-> tx.date,
           type |-> IF ContainsAny(LowerStr(description), TableIncomeWords)
                    THEN "income" ELSE tx.type,
           category |-> Categorize(TableCategories, description)] :
              description \in {TableDescription(tx)} })

\* main.py 291-331 for one row that is not skipped: the open transaction and
\* the closed ones after the row
RowEffect(cur, closed, tx_date, text_parts, amounts, cols) ==
    IF tx_date # NULL
    THEN [current_tx |-> OpenTx(tx_date, text_parts, amounts, cols),
          transactions |-> IF HasAmount(cur) THEN Append(closed, cur) ELSE closed]
    ELSE [current_tx |-> IF cur # None THEN ContinueTx(cur, text_parts, amounts, cols) ELSE cur,
          transactions |-> closed]

\* main.py 261-289: what the second pass reads off a row before it acts on it
ReadRow(raw) ==
    The({ [skipped |-> IsSkippedRow(row), tx_date |-> find_date_in_row(row),
           amounts |-> RowAmounts(row), text_parts |-> TextParts(row)] :
              row \in {CleanRow(raw)} })

\* ------------------------------------------------------------------------
\* parse_transactions_regex, one line                    main.py 549-649
\* ------------------------------------------------------------------------
RegexSkipWords == << <<"b","a","l","a","n","c","e">>, <<"t","o","t","a","l">>, <<"o","p","e","n","i","n","g">>,
                     <<"c","l","o","s","i","n","g">>, <<"d","a","t","e">>, <<"d","e","s","c","r","i","p","t","i","o","n">>,
                     <<"p","a","r","t","i","c","u","l","a","r">>, <<"n","a","r","r","a","t","i","o","n">>, <<"p","a","g","e">>,
                     <<"s","t","a","t","e","m","e","n","t">>, <<"a","c","c","o","u","n","t">> >>

\* the optional currency prefix of main.py 563 (case-sensitive)
AmountPrefix ==
    Opt(Alt(<< Cat(<<Lit(<<"R","s">>), Opt(Ch(".")), Star(Sp)>>),
               Cat(<<Lit(<<"P","K","R">>), Star(Sp)>>),
               Cat(<<Ch(Rupee), Star(Sp)>>) >>))
\* the two alternatives of the capturing group of main.py 563, in order
AmountToken1 == Cat(<<Rep(D, 1, 3), Star(Cat(<<Ch(","), Rep(D, 3, 3)>>)),
                      Opt(Cat(<<Ch("."), Rep(D, 1, 2)>>))>>)
AmountToken2 == Cat(<<Plus(D), Opt(Cat(<<Ch("."), Rep(D, 1, 2)>>))>>)

\* where the group of a match of the amount pattern ends when the group starts
\* at g: the first alternative that matches decides, and as every quantifier is
\* greedy and nothing follows the group the match is the longest of that
\* alternative; 0 when neither matches
AmountTokenEnd(line, g) ==
    IF ReEnds(AmountToken1, line, g) # {} THEN SetMax(ReEnds(AmountToken1, line, g))
    ELSE IF ReEnds(AmountToken2, line, g) # {} THEN SetMax(ReEnds(AmountToken2, line, g))
    ELSE 0

\* where group 1 starts in a match of the amount pattern that starts at i (after
\* the optional prefix), 0 when there is no match at i
AmountGroupStart(line, i) ==
    LET gs == { g \in ReEnds(AmountPrefix, line, i) : AmountTokenEnd(line, g) # 0 }
    IN  IF gs = {} THEN 0 ELSE SetMax(gs)

\* re.findall(pattern, line) of main.py 562-565 from position i on: the text of
\* group 1 of every match, left to right without overlap
RECURSIVE FindAmountsFrom(_, _)
FindAmountsFrom(line, from) ==
    LET starts == { i \in from..Len(line) : AmountGroupStart(line, i) # 0 }
    IN  IF starts = {} THEN <<>>
        ELSE LET g == AmountGroupStart(line, SetMin(starts))
                 e == AmountTokenEnd(line, g)
             IN  <<SubSeq(line, g, e - 1)>> \o FindAmountsFrom(line, e)
amount_matches(line) == FindAmountsFrom(line, 1)

\* main.py 571-578: float(m.replace(',', '')) of every match, those > 0 kept
RECURSIVE PositiveAmounts(_)
PositiveAmounts(ms) ==
    IF ms = <<>> THEN <<>>
    ELSE (IF Cents(Without(Head(ms), {","})) > 0
          THEN <<Cents(Without(Head(ms), {","}))>> ELSE <<>>) \o PositiveAmounts(Tail(ms))

\* main.py 584
PickAmount(amounts) ==
    IF Len(amounts) = 1 THEN amounts[1]
    ELSE IF Len(amounts) >= 2 THEN amounts[Len(amounts) - 1]
    ELSE amounts[1]

\* the two alternatives of the date pattern of main.py 588, in order
LineDate1 == Cat(<<Rep(D, 1, 2), Sep, Rep(D, 1, 2), Sep, Rep(D, 2, 4)>>)
LineDate2 == Cat(<<Rep(D, 1, 2), Plus(Sp), Mon, Star(AZ), Star(Sp), Rep(D, 0, 4)>>)

\* re.search(pattern, line, re.IGNORECASE).group(1) of main.py 587-591, NULL
\* when there is no match: the leftmost start, the first alternative that
\* matches there, and its longest match (greedy quantifiers, nothing follows)
line_date(line) ==
    LET Ends(i) == IF ReEnds(LineDate1, line, i) # {} THEN ReEnds(LineDate1, line, i)
                   ELSE ReEnds(LineDate2, line, i)
        starts == { i \in 1..Len(line) : Ends(i) # {} }
    IN  IF starts = {} THEN NULL
        ELSE SubSeq(line, SetMin(starts), SetMax(Ends(SetMin(starts))) - 1)

\* main.py 596-597
RECURSIVE RemoveAll(_, _)
RemoveAll(line, amts) ==
    IF amts = <<>> THEN line ELSE RemoveAll(Replace(line, Head(amts), <<" ">>), Tail(amts))

\* (?:Rs\.?|PKR|₨)\s* under re.IGNORECASE (main.py 602)
CurrencyMark ==
    Cat(<< Alt(<< Cat(<<LitI(<<"R","s">>), Opt(Ch("."))>>), LitI(<<"P","K","R">>), Ch(Rupee) >>),
           Star(Sp) >>)

\* re.sub(CurrencyMark, '', s): every match removed, left to right; each match
\* is the longest at its start (an optional dot and a run of whitespace, greedy)
RECURSIVE StripCurrency(_)
StripCurrency(s) ==
    LET starts == { i \in 1..Len(s) : ReEnds(CurrencyMark, s, i) # {} }
    IN  IF starts = {} THEN s
        ELSE SubSeq(s, 1, SetMin(starts) - 1)
             \o StripCurrency(Drop(s, SetMax(ReEnds(CurrencyMark, s, SetMin(starts))) - 1))

\* main.py 595-604: the text left of a line once the amounts, the date and the
\* currency marks are taken out
DescLine(line, amts, tx_date) ==
    LET a == RemoveAll(line, amts)
        b == IF tx_date # NULL THEN Replace(a, tx_date, <<" ">>) ELSE a
        c == StripCurrency(b)
        d == Strip(SubRuns(c, {"-", "/", ".", ","} \cup Space, " "))
    IN  SubRuns(d, Space, " ")
LineDescription(line) ==
    The({ DescLine(line, amts, tx_date) :
              amts \in {amount_matches(line)}, tx_date \in {line_date(line)} })

receive_keywords == << <<"c","r","e","d","i","t">>, <<"c","r">>, <<"d","e","p","o","s","i","t">>,
                       <<"r","e","c","e","i","v","e","d">>, <<"s","a","l","a","r","y">>, <<"t","r","a","n","s","f","e","r"," ","i","n">>,
                       <<"i","n","c","o","m","i","n","g">>, <<"r","e","f","u","n","d">>, <<"c","a","s","h","b","a","c","k">>,
                       <<"r","e","v","e","r","s","a","l">>, <<"c","r","e","d","i","t","e","d">> >>
send_keywords == << <<"d","e","b","i","t">>, <<"d","r">>, <<"w","i","t","h","d","r","a","w","a","l">>,
                    <<"p","a","y","m","e","n","t">>, <<"p","u","r","c","h","a","s","e">>, <<"t","r","a","n","s","f","e","r"," ","o","u","t">>,
                    <<"o","u","t","g","o","i","n","g">>, <<"d","e","b","i","t","e","d">>, <<"p","a","i","d">> >>

\* main.py 613-623
LineType(line) ==
    IF ContainsAny(LowerStr(line), receive_keywords) THEN "income"
    ELSE IF ContainsAny(LowerStr(line), send_keywords) THEN "expense"
    ELSE "expense"

\* the keyword table of main.py 632-641, in the order of the if/elif chain
RegexCategories == <<
    [name |-> "Food", words |-> << <<"f","o","o","d">>, <<"r","e","s","t","a","u","r","a","n","t">>, <<"c","a","f","e">>,
                                     <<"p","i","z","z","a">>, <<"k","f","c">>, <<"m","c","d","o","n","a","l","d">> >>],
    [name |-> "Shopping", words |-> << <<"a","m","a","z","o","n">>, <<"s","h","o","p">>, <<"s","t","o","r","e">>,
                                         <<"m","a","l","l">>, <<"d","a","r","a","z">> >>],
    [name |-> "Transport", words |-> << <<"u","b","e","r">>, <<"c","a","r","e","e","m">>, <<"f","u","e","l">>,
                                          <<"p","e","t","r","o","l">>, <<"b","u","s">>, <<"m","e","t","r","o">> >>],
    [name |-> "Utilities", words |-> << <<"e","l","e","c","t","r","i","c">>, <<"g","a","s">>, <<"w","a","t","e","r">>,
                                          <<"i","n","t","e","r","n","e","t">>, <<"p","t","c","l">>, <<"j","a","z","z">>,
                                          <<"z","o","n","g">> >>] >>

\* main.py 550-608: the line (already stripped) yields a candidate
LineAccepted(line) ==
    /\ Len(line) >= 8
    /\ ~ContainsAny(LowerStr(line), RegexSkipWords)
    /\ \E amts \in {amount_matches(line)} :
          amts # <<>> /\ PositiveAmounts(amts) # <<>>
    /\ \E desc_line \in {LineDescription(line)} :
          Len(desc_line) >= 3 /\ ReSearch(Rep(AZ, 2, -1), desc_line)

\* main.py 584-649: the candidate transaction of an accepted line
LineTransaction(line) ==
    The({ [description |-> description,
           amount |-> PickAmount(amounts),
           date |-> line_date(line),
           type |-> LineType(line),
           category |-> Categorize(RegexCategories, description)] :
              description \in {Take(LineDescription(line), MaxDescription)},
              amounts \in {PositiveAmounts(amount_matches(line))} })

\* main.py 550-649 for one stripped line: no candidate, or the one candidate
ReadLine(line) == IF LineAccepted(line) THEN <<LineTransaction(line)>> ELSE <<>>

\* text.split('\n')
SplitLines(text) ==
    LET IsBreak(k) == text[k] = "\n"
        nl == SelectSeq(Indexes(text), IsBreak)
    IN  [j \in 1..(Len(nl) + 1) |->
            SubSeq(text, IF j = 1 THEN 1 ELSE nl[j - 1] + 1,
                         IF j <= Len(nl) THEN nl[j] - 1 ELSE Len(text))]

\* ------------------------------------------------------------------------
\* pdf-service: extract_transactions_from_text, one line   app.py 46-72
\* ------------------------------------------------------------------------
PdfSep == In({"/", "-", "."})
\* group 1 of patterns[0] (app.py 40)
PdfDate == Cat(<<Rep(D, 1, 2), PdfSep, Rep(D, 1, 2), PdfSep, Rep(D, 2, 4)>>)

\* the first position at or after j that holds no whitespace (Len + 1 if none)
SkipSpace(line, j) ==
    SetMin({ k \in j..(Len(line) + 1) : k = Len(line) + 1 \/ line[k] \notin Space })

\* the first position at or after j that holds no character of cs
SkipSet(line, j, cs) ==
    SetMin({ k \in j..(Len(line) + 1) : k = Len(line) + 1 \/ line[k] \notin cs })

\* where group 1 can end in a match that starts at i: \s+ must follow it
PdfDateEnds(line, i) ==
    { a \in ReEnds(PdfDate, line, i) : a <= Len(line) /\ line[a] \in Space }

\* group 2, the lazy (.+?), can end before position c: \s+ and then a character
\* of [\d,] follow
PdfDescCanEnd(line, c) ==
    /\ c <= Len(line) /\ line[c] \in Space
    /\ SkipSpace(line, c) <= Len(line)
    /\ line[SkipSpace(line, c)] \in Digit \cup {","}

\* the starts b of group 2 from which the rest of the pattern matches, for the
\* date that ends before a: the first \s+ takes at least one character and at
\* most the whole run of whitespace
PdfDescStarts(line, a) ==
    { b \in (a + 1)..SkipSpace(line, a) :
        \E c \in (b + 1)..Len(line) :
            /\ \A k \in b..(c - 1) : line[k] # "\n"
            /\ PdfDescCanEnd(line, c) }

\* re.search(patterns[0], line) (app.py 52): None, or the groups of the match.
\* The match starts at the leftmost position where one exists; the greedy
\* first \s+ keeps the longest run that still lets the rest match, the lazy
\* group 2 the shortest text, and the amount group and what follows it are
\* greedy with nothing after them.
PdfMatch(line) ==
    LET Ok(i) == \E a \in PdfDateEnds(line, i) : PdfDescStarts(line, a) # {}
        starts == { i \in 1..Len(line) : Ok(i) }
    IN  IF starts = {} THEN None
        ELSE LET i == SetMin(starts)
                 a == SetMax({ e \in PdfDateEnds(line, i) : PdfDescStarts(line, e) # {} })
                 b == SetMax(PdfDescStarts(line, a))
                 c == SetMin({ e \in (b + 1)..Len(line) : PdfDescCanEnd(line, e) })
                 f == SkipSpace(line, c)
                 g == SkipSet(line, f, Digit \cup {","})
                 h == IF g <= Len(line) /\ line[g] = "." THEN g + 1 ELSE g
                 e == SkipSet(line, h, Digit)
                 t == SkipSpace(line, e)
                 two == SubSeq(line, t, Min(t + 1, Len(line)))
             IN  [date_str |-> SubSeq(line, i, a - 1),
                  description |-> SubSeq(line, b, c - 1),
                  amount_str |-> SubSeq(line, f, e - 1),
                  dr_cr |-> IF two \in {<<"D","R">>, <<"C","R">>, <<"C","r">>, <<"D","r">>}
                            THEN two ELSE NULL]

\* float(s) raises ValueError (app.py 60, 71) unless s is digits with at most
\* one dot and at least one digit (the only shapes group 3 without its commas
\* can take)
FloatParses(s) == \E k \in DOMAIN s : s[k] \in Digit

\* float(s) as the digits of its value: the integer part without leading
\* zeros and the fraction without trailing zeros (two strings give the same
\* float exactly when they give the same digits, short of float rounding)
Decimal(s) ==
    LET dots == { k \in DOMAIN s : s[k] = "." }
        dot == IF dots = {} THEN Len(s) + 1 ELSE SetMin(dots)
    IN  [int |-> LStripSet(SubSeq(s, 1, dot - 1), {"0"}),
         frac |-> RStripSet(SubSeq(s, dot + 1, Len(s)), {"0"})]

\* the upper limit of app.py 61 is 100000000 = 10^8: a value is below it when
\* its integer part has at most this many digits
PdfAmountDigits == 8
\* the confidence of app.py 69, in hundredths
PdfConfidence == 70

\* app.py 48-62: the line (already stripped) yields a transaction
PdfLineAccepted(line) ==
    /\ Len(line) >= 10
    /\ \E match \in {PdfMatch(line)} :
          /\ match # None
          /\ \E amount_str \in {Without(match.amount_str, {","})} :
                /\ FloatParses(amount_str)
                /\ \E amount \in {Decimal(amount_str)} :
                      /\ amount.int \o amount.frac # <<>>
                      /\ Len(amount.int) <= PdfAmountDigits

\* app.py 54-70: the transaction of an accepted line, with the uuid4 drawn for it
PdfTransaction(line, uuid) ==
    The({ [id |-> uuid,
           date |-> m.date_str,
           description |-> Take(Strip(m.description), MaxDescription),
           amount |-> Decimal(Without(m.amount_str, {","})),
           type |-> IF m.dr_cr \in {<<"D","R">>, <<"D","r">>} THEN "expense"
                    ELSE IF m.dr_cr \in {<<"C","R">>, <<"C","r">>} THEN "income"
                    ELSE "expense",
           confidence |-> PdfConfidence] : m \in {PdfMatch(line)} })

\* app.py 47-72 for one stripped line: no transaction, or the one transaction
\* before its uuid4 is drawn
PdfReadLine(line) == IF PdfLineAccepted(line) THEN <<PdfTransaction(line, None)>> ELSE <<>>

\* ------------------------------------------------------------------------
\* The AI collaborator's reply and the response model    main.py 70-82, 524-532
\* ------------------------------------------------------------------------
\* re.search(r'\{[\s\S]*\}', content) (main.py 527): a "{" with a "}" after it
HasJsonObject(content) ==
    \E i \in DOMAIN content : \E j \in DOMAIN content :
        i < j /\ content[i] = "{" /\ content[j] = "}"

\* class Transaction (main.py 70-75): pydantic accepts a transaction that has
\* the three required fields
TransactionFields == {"description", "amount", "type"}
ValidTransactions(txs) ==
    \A k \in DOMAIN txs : TransactionFields \subseteq DOMAIN txs[k]

\* raw_text[:10000] (main.py 716)
RawTextLimit == 10000

\* the output cap of main.py 652 and app.py 74
MaxTransactions == 100

\* ------------------------------------------------------------------------
\* The inputs the model draws from
\* ------------------------------------------------------------------------
\* table rows as pdfplumber hands them over: date, text, debit, credit
RowHeader == << <<"D","a","t","e">>, <<"D","e","s","c">>, <<"D","e","b","i","t">>, <<"C","r","e","d","i","t">> >>
RowDebit == << <<"0","1","-","0","2","-","2","0","2","5">>, <<"G","r","o","c","e","r","y"," ","M","a","r","t">>, <<"5","0","0">>, <<>> >>
RowCredit == << <<"0","1","-","0","2","-","2","0","2","5">>, <<"G","r","o","c","e","r","y"," ","M","a","r","t">>, <<>>, <<"5","0","0",".","0","0">> >>
RowText == << <<>>, <<"c","o","n","t","i","n","u","e","d"," ","t","e","x","t">>, <<>>, <<>> >>
RowAmount == << <<>>, <<>>, <<"2","5","0">>, <<>> >>
RowNoAmount == << <<"0","3","-","0","2","-","2","0","2","5">>, <<"A","T","M">>, <<>>, <<>> >>
RowTotal == << <<"T","o","t","a","l">>, <<>>, <<"7","5","0">>, <<>> >>
RowEmpty == << <<>>, <<>>, <<>>, <<>> >>
\* a header with a balance column and no credit column, and one whose credit
\* column comes before its debit column
RowHeaderBalance == << <<"D","a","t","e">>, <<"D","e","t","a","i","l","s">>, <<"B","a","l","a","n","c","e">>, <<"W","i","t","h","d","r","a","w","a","l">> >>
RowHeaderSwapped == << <<"D","a","t","e">>, <<"D","e","s","c">>, <<"D","e","p","o","s","i","t">>, <<"D","e","b","i","t">> >>
\* a dated row with an amount in each of the last two columns, one whose text
\* holds a keyword of main.py 382, and one with an amount above the ceiling
RowBoth == << <<"0","5","-","0","2","-","2","0","2","5">>, <<"C","a","f","e"," ","S","t","o","r","e">>, <<"1","2","0">>, <<"5","0","0">> >>
RowDeposit == << <<"0","6","-","0","2","-","2","0","2","5">>, <<"C","a","s","h"," ","D","e","p","o","s","i","t"," ","F","e","e">>, <<"7","5">>, <<>> >>
RowHuge == << <<"0","7","-","0","2","-","2","0","2","5">>, <<"P","r","o","p","e","r","t","y"," ","D","e","a","l">>, <<"2","5","0","0","0","0","0">>, <<>> >>
RowVocab == { RowHeader, RowDebit, RowCredit, RowText, RowAmount, RowNoAmount, RowTotal, RowEmpty,
              RowHeaderBalance, RowHeaderSwapped, RowBoth, RowDeposit, RowHuge }

\* text lines of a statement
LineMart == <<"G","r","o","c","e","r","y"," ","M","a","r","t"," ","5","0","0">>
LineMartBalance == <<"G","r","o","c","e","r","y"," ","M","a","r","t"," ","5","0","0",".","0","0"," ","1","2","0","0">>
LineAtm == <<"A","T","M"," ","5","0","0",".","0","0"," ","1","2","0","0",".","0","0">>
LineOpening == <<"O","p","e","n","i","n","g"," ","B","a","l","a","n","c","e"," ","5","0","0">>
LineSalary == <<"S","a","l","a","r","y"," ","c","r","e","d","i","t"," ","5","0",",","0","0","0",".","0","0">>
LinePeriod == <<"S","t","a","t","e","m","e","n","t"," ","P","e","r","i","o","d",":"," ","0","1","/","1","2","/","2","0","2","4"," ","-"," ","3","1","/","1","2","/","2","0","2","4">>
\* a line with a zero among its numbers, one with a keyword of main.py 378 and
\* one with a number of four digits
LineZero == <<"M","a","r","t"," ","5","0","0",".","0","0"," ","0",".","0","0"," ","1","2","0","0",".","0","0">>
LineTransfer == <<"B","a","n","k"," ","t","r","a","n","s","f","e","r"," ","3","0","0">>
LineThousand == <<"G","r","o","c","e","r","y"," ","M","a","r","t"," ","1","5","0","0">>
LineVocab == { LineMart, LineMartBalance, LineAtm, LineOpening, LineSalary, LinePeriod,
               LineZero, LineTransfer, LineThousand }

\* text lines for the pdf-service
PdfLineMart == <<"0","1","/","0","2","/","2","0","2","5"," ","G","r","o","c","e","r","y"," ","M","a","r","t"," ","1","7",".","5","0"," ","D","R">>
PdfLineSalary == <<"0","2","/","0","2","/","2","0","2","5"," ","S","a","l","a","r","y"," ","5","0",",","0","0","0"," ","C","R">>
PdfLineNoDate == <<"n","o"," ","d","a","t","e"," ","l","i","n","e"," ","h","e","r","e"," ","5","5">>
PdfLineComma == <<"0","1","/","0","2","/","2","0","2","5"," ","x"," ",",">>
PdfLineVocab == { PdfLineMart, PdfLineSalary, PdfLineNoDate, PdfLineComma }

\* the longest table and the longest texts handed to the extraction routines,
\* the number of lines by which a long text exceeds the output cap, the number
\* of values the generator behind uuid4 can start from, and the longest table
\* and text of an upload to POST /parse-document
MaxRows == 3
MaxLines == 3
MaxPdfLines == 3
ExtraLines == 2
NumSeeds == 2
DocRows == 2
DocLines == 2

\* all sequences over S of length at most n
SeqsUpTo(S, n) == UNION { [1..k -> S] : k \in 0..n }

\* the lines of a text, each followed by a line break
RECURSIVE Unlines(_)
Unlines(ls) == IF ls = <<>> THEN <<>> ELSE Head(ls) \o <<"\n">> \o Unlines(Tail(ls))

\* two decimals of k hundredths: 7 -> "0.07", 102 -> "1.02"
Money(k) == IntStr(k \div 100) \o <<".">> \o IntStr((k % 100) \div 10) \o IntStr(k % 10)

\* a long statement of n lines of the same width, line k being head \o Money(k)
LongText(head, n) ==
    LET w == Len(head) + 5
    IN  [p \in 1..(n * w) |->
            IF p % w = 0 THEN "\n" ELSE (head \o Money((p - 1) \div w + 1))[p % w]]
LongSizes == (MaxTransactions - 1)..(MaxTransactions + ExtraLines)

LongHead == <<"C","a","f","e"," ">>
PdfLongHead == <<"1","/","2","/","2","5"," ","C","a","f","e"," ">>
\* the tables handed to parse_table_transactions: every table shorter than the
\* longest, and the longest ones that are made of the first eight rows or
\* start with a header row
HeaderRows == { RowHeader, RowHeaderBalance, RowHeaderSwapped }
FirstRows == { RowHeader, RowDebit, RowCredit, RowText, RowAmount, RowNoAmount, RowTotal, RowEmpty }
Tables == SeqsUpTo(RowVocab, MaxRows - 1)
          \cup [1..MaxRows -> FirstRows]
          \cup { <<h>> \o t : h \in HeaderRows, t \in [1..(MaxRows - 1) -> RowVocab \ HeaderRows] }
Texts == { Unlines(ls) : ls \in SeqsUpTo(LineVocab, MaxLines) }
          \cup { LongText(LongHead, n) : n \in LongSizes }
PdfTexts == { Unlines(ls) : ls \in SeqsUpTo(PdfLineVocab, MaxPdfLines) }
             \cup { LongText(PdfLongHead, n) : n \in LongSizes }

\* what the routines read off the rows and lines above, worked out once: the
\* routines look a row or a line up here and work it out only if it is not here
RowsRead == [raw \in RowVocab |-> ReadRow(raw)]
LinesRead ==
    [line \in LineVocab \cup { LongHead \o Money(k) : k \in 1..(MaxTransactions + ExtraLines) }
        |-> ReadLine(line)]
PdfLinesRead ==
    [line \in PdfLineVocab \cup { PdfLongHead \o Money(k) : k \in 1..(MaxTransactions + ExtraLines) }
        |-> PdfReadLine(line)]
RowRead(raw) == IF raw \in DOMAIN RowsRead THEN RowsRead[raw] ELSE ReadRow(raw)
LineRead(line) == IF line \in DOMAIN LinesRead THEN LinesRead[line] ELSE ReadLine(line)
PdfLineRead(line) == IF line \in DOMAIN PdfLinesRead THEN PdfLinesRead[line] ELSE PdfReadLine(line)

\* file names of uploads
NamePdf == <<"B","a","n","k",".","P","D","F">>
NameCsv == <<"b","a","n","k",".","c","s","v">>
NamePng == <<"s","c","a","n",".","p","n","g">>
NameTxt == <<"b","a","n","k",".","t","x","t">>

\* an upload: the file name and, page by page, what the PDF libraries read
\* from the file (the text of the page, and its tables as lists of rows); the
\* text of the one page of a CSV upload models the bytes of the file
Page(text, table) == [text |-> text, tables |-> IF table = <<>> THEN <<>> ELSE <<table>>]
Doc(name, text, table) == [filename |-> name, pages |-> <<Page(text, table)>>]

\* uploads to POST /parse-document
Uploads ==
    { Doc(NamePdf, LineMart, t) : t \in SeqsUpTo(RowVocab, DocRows) }
    \cup { Doc(NamePdf, x, t) : x \in {<<>>, Unlines(<<LinePeriod, LineMart>>)},
                                t \in SeqsUpTo(RowVocab, 1) }
    \cup { Doc(NameCsv, Unlines(ls), <<>>) : ls \in SeqsUpTo(LineVocab, DocLines) }
    \cup { Doc(n, LineMart, <<>>) : n \in {NamePng, NameTxt, <<>>} }

\* uploads to the pdf-service's POST /extract
PdfUploads ==
    { Doc(NamePdf, x, <<>>) : x \in PdfTexts }
    \cup { Doc(NamePdf, PdfLineMart, t) : t \in {<<RowHeader>>, <<RowHeader, RowDebit>>} }
    \cup { Doc(NameCsv, PdfLineMart, <<>>) }

\* the rows handed to parse_table_transactions and the texts handed to
\* parse_transactions_regex when the routines are run on their own
TableInputs == { Doc(NamePdf, <<>>, t) : t \in Tables \ {<<>>} }
TextInputs == { Doc(NameCsv, x, <<>>) : x \in Texts }

\* ------------------------------------------------------------------------
\* The two services as a state machine
\* ------------------------------------------------------------------------
VARIABLES
    env,                 \* what the import block and the environment provide (main.py 22-50, 476)
    pc,                  \* where the request in progress stands
    service,             \* the server, or the routine run on its own, that is observed
    run,                 \* 1 for a call, 2 for the same call made again
    first,               \* what the first call returned, None during it
    upload,              \* file
    tmp_file,            \* the temporary file of main.py 677: "none", "exists", "removed", "left"
    invoked,             \* the strategies called during this request
    tables,              \* extract_text_from_pdf: tables (the rows handed to parse_table_transactions)
    cols,                \* parse_table_transactions: debit_col, credit_col, balance_col
    row_i,               \* the row the second pass is at
    current_tx,
    transactions,
    tx_i,                \* the closed transaction the post-processing loop is at
    seen,
    final_transactions,
    table_transactions,  \* parse_document's locals
    raw_text,
    page_count,
    result,
    ai_reply,            \* parse_transactions_with_ai: the reply of the model, None without one
    lines,               \* the line parsers: text.split('\n')
    line_i,              \* the line the loop is at
    rx_transactions,     \* parse_transactions_regex: transactions
    rx_seen,             \* parse_transactions_regex: seen
    pdf_transactions,    \* extract_transactions_from_text: transactions
    uuid_seed,           \* the state of the generator behind uuid.uuid4()
    response             \* what the request returned, None while it runs

vars == <<env, pc, service, run, first, upload, tmp_file, invoked, tables, cols, row_i,
          current_tx, transactions, tx_i, seen, final_transactions, table_transactions,
          raw_text, page_count, result, ai_reply, lines, line_i, rx_transactions, rx_seen,
          pdf_transactions, uuid_seed, response>>

\* the locals of a request before it starts
table_locals == <<tables, cols, row_i, current_tx, transactions, tx_i, seen, final_transactions>>
line_locals == <<lines, line_i, rx_transactions, rx_seen, pdf_transactions>>
doc_locals == <<table_transactions, raw_text, page_count, result, ai_reply>>
session == <<env, service, run, first, upload>>

NoCols == [debit |-> -1, credit |-> -1, balance |-> -1]

Fresh ==
    /\ tmp_file = "none" /\ invoked = {}
    /\ tables = <<>> /\ cols = NoCols /\ row_i = 0 /\ current_tx = None
    /\ transactions = <<>> /\ tx_i = 0 /\ seen = {} /\ final_transactions = <<>>
    /\ table_transactions = <<>> /\ raw_text = <<>> /\ page_count = 1 /\ result = None
    /\ ai_reply = None
    /\ lines = <<>> /\ line_i = 0 /\ rx_transactions = <<>> /\ rx_seen = {}
    /\ pdf_transactions = <<>> /\ uuid_seed = 0 /\ response = None

\* the libraries present and whether a Groq key is configured
FullEnv == [pdfplumber |-> TRUE, fitz |-> TRUE, Groq |-> TRUE, api_key |-> TRUE]
Environments ==
    { FullEnv,
      [FullEnv EXCEPT !.pdfplumber = FALSE], [FullEnv EXCEPT !.fitz = FALSE],
      [FullEnv EXCEPT !.pdfplumber = FALSE, !.fitz = FALSE],
      [FullEnv EXCEPT !.Groq = FALSE], [FullEnv EXCEPT !.api_key = FALSE] }

\* the uploads the model sends to the ai-server: all of them when everything
\* is installed, those of at most one table row and one line of text otherwise
Small(doc) ==
    /\ \A k \in DOMAIN doc.pages :
          /\ Len(SplitLines(doc.pages[k].text)) <= 2
          /\ \A j \in DOMAIN doc.pages[k].tables : Len(doc.pages[k].tables[j]) <= 1
Requests(e) == IF e = FullEnv THEN Uploads ELSE { d \in Uploads : Small(d) }

\* the pdf-service imports pdfplumber alone (app.py 7)
PdfServiceEnv == [pdfplumber |-> TRUE, fitz |-> FALSE, Groq |-> FALSE, api_key |-> FALSE]

\* the ai-server has started and waits for a request
Init ==
    /\ service = "ai-server"
    /\ env \in Environments
    /\ pc = "idle" /\ run = 1 /\ first = None /\ upload = None
    /\ Fresh

\* the extraction routines observed on their own: the pdf-service waits for a
\* request, or parse_table_transactions or parse_transactions_regex for a call
InitExtraction ==
    /\ \/ service = "pdf-service" /\ env = PdfServiceEnv
       \/ service \in {"parse_table_transactions", "parse_transactions_regex"} /\ env = FullEnv
    /\ pc = "idle" /\ run = 1 /\ first = None /\ upload = None
    /\ Fresh

\* s.endswith(suffix)
EndsWith(s, suffix) ==
    Len(s) >= Len(suffix) /\ SubSeq(s, Len(s) - Len(suffix) + 1, Len(s)) = suffix

\* an HTTPException, or the 500 FastAPI answers when a handler raises
Error(status, detail) == [status |-> status, detail |-> detail]

\* the exception leaves the handler at once, as if the try block had no
\* finally clause
RaiseSkipsFinally(status, detail) ==
    /\ response' = Error(status, detail)
    /\ pc' = "done"
\* the request fails inside the try block of main.py 681: the finally block runs next
Raise(status, detail) ==
    /\ response' = Error(status, detail)
    /\ pc' = "cleanup"

\* ------------------------------------------------------------------------
\* POST /parse-document                                   main.py 665-727
\* ------------------------------------------------------------------------
\* a request or a call arrives: a new one, or the first one again
Waiting(srv) == service = srv /\ pc \in {"idle", "again"}
Arrivals(docs) == IF pc = "idle" THEN docs ELSE {upload}

\* main.py 670-671
ParseDocumentNoFile ==
    /\ Waiting("ai-server")
    /\ \E doc \in Arrivals(Requests(env)) :
        /\ doc.filename = <<>>
        /\ upload' = doc
        /\ response' = Error(400, "No file provided")
        /\ pc' = "done"
        /\ UNCHANGED <<env, service, run, first, tmp_file, invoked, table_locals, doc_locals,
                       line_locals, uuid_seed>>

\* main.py 673-683: the upload is written to a temporary file
ParseDocument ==
    /\ Waiting("ai-server")
    /\ \E doc \in Arrivals(Requests(env)) :
        /\ doc.filename # <<>>
        /\ upload' = doc
        /\ tmp_file' = "exists"
        /\ pc' = "extract"
        /\ UNCHANGED <<env, service, run, first, invoked, table_locals, doc_locals, line_locals,
                       uuid_seed, response>>

\* filename.lower().endswith(...) (main.py 673, 686-691; app.py 113)
HasSuffix(filename, suffixes) == \E x \in suffixes : EndsWith(LowerStr(filename), x)
SuffixPdf == { <<".","p","d","f">> }
SuffixCsv == { <<".","c","s","v">> }
SuffixImage == { <<".","p","n","g">>, <<".","j","p","g">>, <<".","j","p","e","g">>, <<".","w","e","b","p">> }

\* all_tables of extract_tables_from_pdf (main.py 96-103): the rows of the
\* tables of the first n pages, one list
RECURSIVE Concat(_)
Concat(seqs) == IF seqs = <<>> THEN <<>> ELSE Head(seqs) \o Concat(Tail(seqs))
AllTables(pages, n) == Concat([k \in 1..n |-> Concat(pages[k].tables)])

\* ------------------------------------------------------------------------
\* extract_text_from_pdf, tables first                    main.py 397-411
\* ------------------------------------------------------------------------
\* extract_tables_from_pdf (main.py 85-107) returns the rows of the pages
\* read before pdfplumber raised (all pages if it did not), none without
\* pdfplumber; no rows: parse_table_transactions is not called (main.py 408)
ExtractPdfNoTables ==
    /\ pc = "extract" /\ HasSuffix(upload.filename, SuffixPdf)
    /\ \E n \in 0..Len(upload.pages) :
          /\ env.pdfplumber \/ n = 0
          /\ AllTables(upload.pages, n) = <<>>
    /\ pc' = "text"
    /\ UNCHANGED <<session, tmp_file, invoked, table_locals, doc_locals, line_locals,
                   uuid_seed, response>>

\* rows were found: parse_table_transactions starts, and its first pass fixes
\* the columns (main.py 183, 238-258)
StartTable(rows) ==
    /\ tables' = rows
    /\ invoked' = invoked \cup {"parse_table_transactions"}
    /\ cols' = InferColumns(rows)
    /\ transactions' = <<>> /\ seen' = {} /\ current_tx' = None
    /\ row_i' = 1
    /\ pc' = "rows"
    /\ UNCHANGED <<env, service, run, first, tmp_file, tx_i, final_transactions,
                   table_transactions, page_count, result, ai_reply, line_locals, uuid_seed,
                   response>>

ExtractPdfTables ==
    /\ pc = "extract" /\ HasSuffix(upload.filename, SuffixPdf)
    /\ env.pdfplumber
    /\ \E n \in 1..Len(upload.pages) :
          /\ AllTables(upload.pages, n) # <<>>
          /\ StartTable(AllTables(upload.pages, n))
    /\ UNCHANGED <<upload, raw_text>>

\* parse_table_transactions is called on its own
CallTable ==
    /\ Waiting("parse_table_transactions")
    /\ \E doc \in Arrivals(TableInputs) :
          /\ upload' = doc
          /\ StartTable(AllTables(doc.pages, Len(doc.pages)))
    /\ UNCHANGED raw_text

AtRow == pc = "rows" /\ row_i <= Len(tables)

\* SkipRow with `continue` taken for the end of a transaction: the open
\* transaction is closed
SkipRowCloses ==
    /\ AtRow
    /\ \E row \in {RowRead(tables[row_i])} : row.skipped
    /\ row_i' = row_i + 1
    /\ transactions' = IF HasAmount(current_tx) THEN Append(transactions, current_tx)
                       ELSE transactions
    /\ current_tx' = None
    /\ UNCHANGED <<session, pc, tmp_file, invoked, tables, cols,
                   tx_i, seen, final_transactions, doc_locals, line_locals, uuid_seed,
                   response>>

\* main.py 261-276: a row that is skipped
SkipRow ==
    /\ AtRow
    /\ \E row \in {RowRead(tables[row_i])} : row.skipped
    /\ row_i' = row_i + 1
    /\ UNCHANGED <<session, pc, tmp_file, invoked, tables, cols, current_tx, transactions,
                   tx_i, seen, final_transactions, doc_locals, line_locals, uuid_seed,
                   response>>

\* main.py 279-331: a row that is processed
ProcessRow ==
    /\ AtRow
    /\ \E row \in {RowRead(tables[row_i])} :
          /\ ~row.skipped
          /\ \E after \in {RowEffect(current_tx, transactions, row.tx_date, row.text_parts,
                                      row.amounts, cols)} :
                /\ current_tx' = after.current_tx
                /\ transactions' = after.transactions
    /\ row_i' = row_i + 1
    /\ UNCHANGED <<session, pc, tmp_file, invoked, tables, cols, tx_i, seen,
                   final_transactions, doc_locals, line_locals, uuid_seed, response>>

\* main.py 333-339: the rows are used up
EndOfRows ==
    /\ pc = "rows" /\ row_i > Len(tables)
    /\ transactions' = IF HasAmount(current_tx) THEN Append(transactions, current_tx)
                       ELSE transactions
    /\ final_transactions' = <<>>
    /\ tx_i' = 1
    /\ pc' = "post"
    /\ UNCHANGED <<session, tmp_file, invoked, tables, cols, row_i, current_tx, seen,
                   doc_locals, line_locals, uuid_seed, response>>

AtTx == pc = "post" /\ tx_i <= Len(transactions)
NextTx ==
    /\ tx_i' = tx_i + 1
    /\ UNCHANGED <<session, pc, tmp_file, invoked, tables, cols, row_i, current_tx,
                   transactions, doc_locals, line_locals, uuid_seed, response>>

\* main.py 352-359: a fragment, or a transaction without a positive amount
RejectTx ==
    /\ AtTx
    /\ \E tx \in {transactions[tx_i]} : ~TableAccepts(tx)
    /\ UNCHANGED <<seen, final_transactions>>
    /\ NextTx

\* main.py 362-364
DuplicateTx ==
    /\ AtTx
    /\ \E tx \in {transactions[tx_i]} :
          /\ TableAccepts(tx)
          /\ \E description \in {TableDescription(tx)} :
                tx_key(description, tx.amount) \in seen
    /\ UNCHANGED <<seen, final_transactions>>
    /\ NextTx

\* main.py 365-391
EmitTx ==
    /\ AtTx
    /\ \E tx \in {transactions[tx_i]} :
          /\ TableAccepts(tx)
          /\ \E description \in {TableDescription(tx)} :
                \E key \in {tx_key(description, tx.amount)} :
                    /\ key \notin seen
                    /\ seen' = seen \cup {key}
          /\ final_transactions' = Append(final_transactions, TableTransaction(tx))
    /\ NextTx

\* main.py 394, 409: parse_table_transactions returns to extract_text_from_pdf
ReturnTable ==
    /\ pc = "post" /\ tx_i > Len(transactions)
    /\ table_transactions' = final_transactions
    /\ pc' = "text"
    /\ UNCHANGED <<session, tmp_file, invoked, table_locals, raw_text, page_count, result,
                   ai_reply,
                   line_locals, uuid_seed, response>>

\* ------------------------------------------------------------------------
\* extract_text_from_pdf, the text                        main.py 413-461
\* ------------------------------------------------------------------------
\* f"\n--- PAGE {i + 1} of {page_count} ---\n"
PageHeader(i, n) == <<"\n","-","-","-"," ","P","A","G","E"," ">> \o IntStr(i) \o <<" ","o","f"," ">> \o IntStr(n) \o <<" ","-","-","-","\n">>

\* all_text after the first n pages (main.py 420-425, 440-445): fitz keeps a
\* page whose text is not blank, pdfplumber one whose text is not empty
RECURSIVE AllText(_, _, _)
AllText(pages, n, lib) ==
    IF n = 0 THEN <<>>
    ELSE LET page_text == pages[n].text
             keep == IF lib = "fitz" THEN Strip(page_text) # <<>> ELSE page_text # <<>>
         IN  AllText(pages, n - 1, lib)
             \o (IF ~keep THEN <<>>
                 ELSE (IF Len(pages) > 1 THEN PageHeader(n, Len(pages)) ELSE <<>>)
                      \o page_text \o <<"\n">>)

\* all_text when the fitz block is left without returning: nothing without
\* fitz, the text of the pages read before fitz raised, or blank text
FitzLeaves(pages) ==
    IF ~env.fitz THEN { <<>> }
    ELSE { AllText(pages, k, "fitz") : k \in 0..Len(pages) }

\* main.py 414-431: fitz reads every page and the text is not blank
PdfTextFitz ==
    /\ pc = "text" /\ env.fitz
    /\ Strip(AllText(upload.pages, Len(upload.pages), "fitz")) # <<>>
    /\ raw_text' = AllText(upload.pages, Len(upload.pages), "fitz")
    /\ page_count' = Len(upload.pages)
    /\ pc' = "decide"
    /\ UNCHANGED <<session, tmp_file, invoked, table_locals, table_transactions, result, ai_reply,
                   line_locals, uuid_seed, response>>

\* main.py 436-448: pdfplumber adds its text to what fitz left in all_text
PdfTextPlumber ==
    /\ pc = "text" /\ env.pdfplumber
    /\ \E left \in FitzLeaves(upload.pages) :
          LET all_text == left \o AllText(upload.pages, Len(upload.pages), "pdfplumber")
          IN  /\ Strip(all_text) # <<>>
              /\ raw_text' = all_text
    /\ page_count' = Len(upload.pages)
    /\ pc' = "decide"
    /\ UNCHANGED <<session, tmp_file, invoked, table_locals, table_transactions, result, ai_reply,
                   line_locals, uuid_seed, response>>

\* main.py 449-461: no text, whatever parse_table_transactions returned
PdfTextFails ==
    /\ pc = "text"
    /\ \E left \in FitzLeaves(upload.pages) :
          \/ /\ env.pdfplumber
             /\ Raise(400, "Failed to read PDF")
          \/ /\ ~env.fitz /\ ~env.pdfplumber
             /\ Raise(500, "No PDF library installed")
          \/ /\ env.fitz \/ env.pdfplumber
             /\ \/ ~env.pdfplumber
                \/ Strip(left \o AllText(upload.pages, Len(upload.pages), "pdfplumber")) = <<>>
             /\ Raise(400, "Could not extract text from PDF")
    /\ UNCHANGED <<session, tmp_file, invoked, table_locals, doc_locals, line_locals,
                   uuid_seed>>

\* main.py 689-690
ExtractCsv ==
    /\ pc = "extract"
    /\ ~HasSuffix(upload.filename, SuffixPdf) /\ HasSuffix(upload.filename, SuffixCsv)
    /\ raw_text' = upload.pages[1].text
    /\ pc' = "decide"
    /\ UNCHANGED <<session, tmp_file, invoked, table_locals, table_transactions,
                   page_count, result, ai_reply, line_locals, uuid_seed, response>>

\* main.py 691-698
ExtractUnsupported ==
    /\ pc = "extract"
    /\ ~HasSuffix(upload.filename, SuffixPdf \cup SuffixCsv)
    /\ IF HasSuffix(upload.filename, SuffixImage)
       THEN Raise(400, "Image OCR requires tesseract")
       ELSE Raise(400, "Unsupported file type")
    /\ UNCHANGED <<session, tmp_file, invoked, table_locals, doc_locals, line_locals,
                   uuid_seed>>

\* ------------------------------------------------------------------------
\* parse_document, the choice of a strategy               main.py 700-720
\* ------------------------------------------------------------------------
\* ParsedDocument(...) (main.py 715-720)
ParsedDocument(text, txs, period, pages) ==
    [status |-> 200, raw_text |-> Take(text, RawTextLimit), transactions |-> txs,
     detected_period |-> period, page_count |-> pages]

\* main.py 700-701
NoContent ==
    /\ pc = "decide"
    /\ Strip(raw_text) = <<>> /\ table_transactions = <<>>
    /\ Raise(400, "Could not extract text from document")
    /\ UNCHANGED <<session, tmp_file, invoked, table_locals, doc_locals, line_locals,
                   uuid_seed>>

\* main.py 705-708, 715-720
UseTables ==
    /\ pc = "decide"
    /\ table_transactions # <<>>
    /\ response' = ParsedDocument(raw_text, table_transactions, None, page_count)
    /\ pc' = "cleanup"
    /\ UNCHANGED <<session, tmp_file, invoked, table_locals, doc_locals, line_locals,
                   uuid_seed>>

\* CallAi with `else:` forgotten: the text strategy runs whatever the tables gave
CallAiAlways ==
    /\ pc = "decide"
    /\ Strip(raw_text) # <<>>
    /\ invoked' = invoked \cup {"parse_transactions_with_ai"}
    /\ pc' = "ai"
    /\ UNCHANGED <<session, tmp_file, table_locals, doc_locals, line_locals, uuid_seed,
                   response>>

\* main.py 709-711
CallAi ==
    /\ pc = "decide"
    /\ Strip(raw_text) # <<>> /\ table_transactions = <<>>
    /\ invoked' = invoked \cup {"parse_transactions_with_ai"}
    /\ pc' = "ai"
    /\ UNCHANGED <<session, tmp_file, table_locals, doc_locals, line_locals, uuid_seed,
                   response>>

\* ------------------------------------------------------------------------
\* parse_transactions_with_ai                             main.py 472-536
\* ------------------------------------------------------------------------
\* a reply of the model: response.choices[0].message.content, and what
\* json.loads makes of the text from its first "{" to its last "}" (no value
\* when it raises, else the one value)
Reply(content, parsed) == [content |-> content, parsed |-> parsed]
AiTx(description, amount, type) ==
    [description |-> description, amount |-> amount, date |-> NULL, type |-> type,
     category |-> "Other"]
ReplyProse == Reply(<<"N","o"," ","t","r","a","n","s","a","c","t","i","o","n","s"," ","f","o","u","n","d",".">>, <<>>)
ReplyBroken == Reply(<<"{","t","r","a","n","s","a","c","t","i","o","n","s",":"," ","[","}">>, <<>>)
ReplyRefund ==
    Reply(<<"{","\"","t","r","a","n","s","a","c","t","i","o","n","s","\"",":","[","{","\"","d","e","s","c","r","i","p","t","i","o","n","\"",":","\"","R","e","f","u","n","d","\"",",","\"","a","m","o","u","n","t","\"",":","-","5",",","\"","d","a","t","e","\"",":","n","u","l","l",",","\"","t","y","p","e","\"",":","\"","i","n","c","o","m","e","\"",",","\"","c","a","t","e","g","o","r","y","\"",":","\"","O","t","h","e","r","\"","}","]","}">>,
          << [transactions |-> << AiTx(<<"R","e","f","u","n","d">>, -500, "income") >>] >>)
ReplyTwice ==
    Reply(<<"{","\"","t","r","a","n","s","a","c","t","i","o","n","s","\"",":","[","{","\"","d","e","s","c","r","i","p","t","i","o","n","\"",":","\"","G","r","o","c","e","r","y"," ","M","a","r","t","\"",",","\"","a","m","o","u","n","t","\"",":","5","0","0",",","\"","d","a","t","e","\"",":","n","u","l","l",",","\"","t","y","p","e","\"",":","\"","e","x","p","e","n","s","e","\"",",","\"","c","a","t","e","g","o","r","y","\"",":","\"","O","t","h","e","r","\"","}",",","{","\"","d","e","s","c","r","i","p","t","i","o","n","\"",":","\"","G","r","o","c","e","r","y"," ","M","a","r","t","\"",",","\"","a","m","o","u","n","t","\"",":","5","0","0",",","\"","d","a","t","e","\"",":","n","u","l","l",",","\"","t","y","p","e","\"",":","\"","e","x","p","e","n","s","e","\"",",","\"","c","a","t","e","g","o","r","y","\"",":","\"","O","t","h","e","r","\"","}","]",",","\"","d","e","t","e","c","t","e","d","_","p","e","r","i","o","d","\"",":","{","\"","m","o","n","t","h","\"",":","\"","D","e","c","e","m","b","e","r","\"",",","\"","y","e","a","r","\"",":","2","0","2","4","}","}">>,
          << [transactions |-> << AiTx(<<"G","r","o","c","e","r","y"," ","M","a","r","t">>, 50000, "expense"), AiTx(<<"G","r","o","c","e","r","y"," ","M","a","r","t">>, 50000, "expense") >>,
              detected_period |-> [month |-> "December", year |-> 2024]] >>)
ReplyNoAmount ==
    Reply(<<"{","\"","t","r","a","n","s","a","c","t","i","o","n","s","\"",":","[","{","\"","d","e","s","c","r","i","p","t","i","o","n","\"",":","\"","G","r","o","c","e","r","y"," ","M","a","r","t","\"",",","\"","t","y","p","e","\"",":","\"","e","x","p","e","n","s","e","\"","}","]","}">>,
          << [transactions |-> << [description |-> <<"G","r","o","c","e","r","y"," ","M","a","r","t">>, type |-> "expense"] >>] >>)
ReplyPeriod ==
    Reply(<<"{","\"","d","e","t","e","c","t","e","d","_","p","e","r","i","o","d","\"",":","{","\"","m","o","n","t","h","\"",":","\"","D","e","c","e","m","b","e","r","\"",",","\"","y","e","a","r","\"",":","2","0","2","4","}","}">>,
          << [detected_period |-> [month |-> "December", year |-> 2024]] >>)
Replies == { ReplyProse, ReplyBroken, ReplyRefund, ReplyTwice, ReplyNoAmount, ReplyPeriod }

\* StartRegex with seen kept from the call before: `seen` a set of the module
StartRegexKeepsSeen(text) ==
    /\ invoked' = invoked \cup {"parse_transactions_regex"}
    /\ lines' = SplitLines(text)
    /\ line_i' = 1
    /\ rx_transactions' = <<>> /\ rx_seen' = rx_seen
    /\ pc' = "regex"
    /\ UNCHANGED <<env, service, run, first, tmp_file, table_locals, table_transactions,
                   page_count, result, pdf_transactions, uuid_seed, response>>

\* parse_transactions_regex starts on the text (main.py 489, 536, 544-547)
StartRegex(text) ==
    /\ invoked' = invoked \cup {"parse_transactions_regex"}
    /\ lines' = SplitLines(text)
    /\ line_i' = 1
    /\ rx_transactions' = <<>> /\ rx_seen' = {}
    /\ pc' = "regex"
    /\ UNCHANGED <<env, service, run, first, tmp_file, table_locals, table_transactions,
                   page_count, result, pdf_transactions, uuid_seed, response>>

\* parse_transactions_regex is called on its own
CallRegex ==
    /\ Waiting("parse_transactions_regex")
    /\ \E doc \in Arrivals(TextInputs) :
          /\ upload' = doc
          /\ raw_text' = doc.pages[1].text
          /\ StartRegex(doc.pages[1].text)
    /\ UNCHANGED ai_reply

\* main.py 476-489: no key in the environment or in backend/.env, or no client
AiUnavailable ==
    /\ pc = "ai"
    /\ ~env.api_key \/ ~env.Groq
    /\ StartRegex(raw_text)
    /\ UNCHANGED <<upload, raw_text, ai_reply>>

\* main.py 479-485: reading backend/.env raises, outside the try block
AiKeyFileUnreadable ==
    /\ pc = "ai"
    /\ ~env.api_key
    /\ Raise(500, "Internal Server Error")
    /\ UNCHANGED <<session, tmp_file, invoked, table_locals, doc_locals, line_locals,
                   uuid_seed>>

\* main.py 491-524, 534-536: the client or the call raises
AiCallRaises ==
    /\ pc = "ai"
    /\ env.api_key /\ env.Groq
    /\ StartRegex(raw_text)
    /\ UNCHANGED <<upload, raw_text, ai_reply>>

\* main.py 527-529, 534-536: json.loads raises on the matched text
AiBadJson ==
    /\ pc = "ai"
    /\ env.api_key /\ env.Groq
    /\ \E reply \in Replies :
          /\ HasJsonObject(reply.content) /\ reply.parsed = <<>>
          /\ ai_reply' = reply
    /\ StartRegex(raw_text)
    /\ UNCHANGED <<upload, raw_text>>

\* main.py 527, 531-532: the reply holds no JSON object
AiNoJson ==
    /\ pc = "ai"
    /\ env.api_key /\ env.Groq
    /\ \E reply \in Replies : ~HasJsonObject(reply.content) /\ ai_reply' = reply
    /\ result' = [transactions |-> <<>>, detected_period |-> None]
    /\ pc' = "respond"
    /\ UNCHANGED <<session, tmp_file, invoked, table_locals, table_transactions, raw_text,
                   page_count, line_locals, uuid_seed, response>>

\* main.py 527-530: the parsed reply is returned as it is
AiJson ==
    /\ pc = "ai"
    /\ env.api_key /\ env.Groq
    /\ \E reply \in Replies :
          /\ HasJsonObject(reply.content) /\ reply.parsed # <<>>
          /\ result' = reply.parsed[1]
          /\ ai_reply' = reply
    /\ pc' = "respond"
    /\ UNCHANGED <<session, tmp_file, invoked, table_locals, table_transactions, raw_text,
                   page_count, line_locals, uuid_seed, response>>

\* ------------------------------------------------------------------------
\* parse_transactions_regex, the loop                     main.py 549-652
\* ------------------------------------------------------------------------
Line == Strip(lines[line_i])
AtLine == pc = "regex" /\ line_i <= Len(lines)
NextLine ==
    /\ line_i' = line_i + 1
    /\ UNCHANGED <<session, pc, tmp_file, invoked, table_locals, doc_locals, lines,
                   pdf_transactions, uuid_seed, response>>

\* main.py 551-608: the line yields no candidate
RegexSkipLine ==
    /\ AtLine
    /\ LineRead(Line) = <<>>
    /\ UNCHANGED <<rx_transactions, rx_seen>>
    /\ NextLine

\* main.py 626-628
RegexDuplicateLine ==
    /\ AtLine
    /\ \E found \in {LineRead(Line)} :
          /\ found # <<>>
          /\ tx_key(found[1].description, found[1].amount) \in rx_seen
    /\ UNCHANGED <<rx_transactions, rx_seen>>
    /\ NextLine

\* main.py 629-649
RegexAcceptLine ==
    /\ AtLine
    /\ \E found \in {LineRead(Line)} :
          /\ found # <<>>
          /\ \E key \in {tx_key(found[1].description, found[1].amount)} :
                /\ key \notin rx_seen
                /\ rx_seen' = rx_seen \cup {key}
                /\ rx_transactions' = Append(rx_transactions, found[1])
    /\ NextLine

\* Cap with the slice forgotten
NoCap(txs) == txs

\* transactions[:100] (main.py 652; app.py 74)
Cap(txs) == Take(txs, MaxTransactions)

\* main.py 652
RegexReturn ==
    /\ pc = "regex" /\ line_i > Len(lines)
    /\ result' = [transactions |-> Cap(rx_transactions), detected_period |-> None]
    /\ pc' = "respond"
    /\ UNCHANGED <<session, tmp_file, invoked, table_locals, table_transactions, raw_text,
                   page_count, ai_reply, line_locals, uuid_seed, response>>

\* ------------------------------------------------------------------------
\* parse_document, the response and the temporary file    main.py 712-727
\* ------------------------------------------------------------------------
\* d.get(key, default)
Get(d, key, default) == IF key \in DOMAIN d THEN d[key] ELSE default

\* main.py 712-720
Respond ==
    /\ pc = "respond"
    /\ ValidTransactions(Get(result, "transactions", <<>>))
    /\ response' = ParsedDocument(raw_text, Get(result, "transactions", <<>>),
                                  Get(result, "detected_period", None), page_count)
    /\ pc' = "cleanup"
    /\ UNCHANGED <<session, tmp_file, invoked, table_locals, doc_locals, line_locals,
                   uuid_seed>>

\* main.py 715-720: ParsedDocument rejects a transaction without a required field
RespondInvalid ==
    /\ pc = "respond"
    /\ ~ValidTransactions(Get(result, "transactions", <<>>))
    /\ Raise(500, "Internal Server Error")
    /\ UNCHANGED <<session, tmp_file, invoked, table_locals, doc_locals, line_locals,
                   uuid_seed>>

\* main.py 722-727: os.unlink removes the file, or raises and is ignored
Cleanup ==
    /\ pc = "cleanup"
    /\ \E removed \in BOOLEAN : tmp_file' = IF removed THEN "removed" ELSE "left"
    /\ pc' = "done"
    /\ UNCHANGED <<session, invoked, table_locals, doc_locals, line_locals, uuid_seed,
                   response>>

\* ------------------------------------------------------------------------
\* pdf-service: POST /extract                             app.py 100-165
\* ------------------------------------------------------------------------
\* app.py 113-114
ExtractNotPdf ==
    /\ Waiting("pdf-service")
    /\ \E doc \in Arrivals(PdfUploads) :
        /\ ~HasSuffix(doc.filename, SuffixPdf)
        /\ upload' = doc
        /\ response' = Error(400, "Only PDF files are accepted")
        /\ pc' = "done"
        /\ UNCHANGED <<env, service, run, first, tmp_file, invoked, table_locals, doc_locals,
                       line_locals, uuid_seed>>

\* app.py 116-123; the generator behind uuid4 is in some state
ExtractPdf ==
    /\ Waiting("pdf-service")
    /\ \E doc \in Arrivals(PdfUploads) :
        /\ HasSuffix(doc.filename, SuffixPdf)
        /\ upload' = doc
        /\ uuid_seed' \in 1..NumSeeds
        /\ pc' = "pdf_read"
        /\ UNCHANGED <<env, service, run, first, tmp_file, invoked, table_locals, doc_locals,
                       line_locals, response>>

\* app.py 164-165: pdfplumber raises
PdfReadFails ==
    /\ pc = "pdf_read"
    /\ response' = Error(500, "PDF processing failed")
    /\ pc' = "done"
    /\ UNCHANGED <<session, tmp_file, invoked, table_locals, doc_locals, line_locals,
                   uuid_seed>>

\* extracted_text of app.py 121-135 after the first n pages
RECURSIVE ExtractedText(_, _)
ExtractedText(pages, n) ==
    IF n = 0 THEN <<>>
    ELSE ExtractedText(pages, n - 1) \o <<"\n","-","-","-"," ","P","a","g","e"," ">> \o IntStr(n) \o <<" ","-","-","-","\n">>
         \o pages[n].text \o <<"\n">>

\* app.py 125-149, 35-45: the pages are read and extract_transactions_from_text
\* starts on the text
PdfRead ==
    /\ pc = "pdf_read"
    /\ raw_text' = ExtractedText(upload.pages, Len(upload.pages))
    /\ page_count' = Len(upload.pages)
    /\ lines' = SplitLines(raw_text')
    /\ line_i' = 1
    /\ pdf_transactions' = <<>>
    /\ pc' = "pdf_lines"
    /\ UNCHANGED <<session, tmp_file, invoked, table_locals, table_transactions, result, ai_reply,
                   rx_transactions, rx_seen, uuid_seed, response>>

AtPdfLine == pc = "pdf_lines" /\ line_i <= Len(lines)
NextPdfLine ==
    /\ line_i' = line_i + 1
    /\ UNCHANGED <<session, pc, tmp_file, invoked, table_locals, doc_locals, lines,
                   rx_transactions, rx_seen, uuid_seed, response>>

\* app.py 47-61, 71-72: the line yields no transaction
PdfSkipLine ==
    /\ AtPdfLine
    /\ PdfLineRead(Line) = <<>>
    /\ UNCHANGED pdf_transactions
    /\ NextPdfLine

\* app.py 62-70: the transaction gets the next uuid4 of the generator
PdfAcceptLine ==
    /\ AtPdfLine
    /\ \E found \in {PdfLineRead(Line)} :
          /\ found # <<>>
          /\ pdf_transactions' =
                Append(pdf_transactions,
                       [found[1] EXCEPT !.id = <<uuid_seed, Len(pdf_transactions) + 1>>])
    /\ NextPdfLine

\* detect_bank_name (app.py 76-90)
UpperStr(s) == [k \in DOMAIN s |-> UpperChar(s[k])]
banks == << <<"H","B","L">>,
           <<"H","a","b","i","b"," ","B","a","n","k">>,
           <<"U","B","L">>,
           <<"U","n","i","t","e","d"," ","B","a","n","k">>,
           <<"M","C","B">>,
           <<"M","u","s","l","i","m"," ","C","o","m","m","e","r","c","i","a","l">>,
           <<"A","l","l","i","e","d"," ","B","a","n","k">>,
           <<"B","a","n","k"," ","A","l","f","a","l","a","h">>,
           <<"M","e","e","z","a","n"," ","B","a","n","k">>,
           <<"S","t","a","n","d","a","r","d"," ","C","h","a","r","t","e","r","e","d">>,
           <<"F","a","y","s","a","l"," ","B","a","n","k">>,
           <<"J","S"," ","B","a","n","k">>,
           <<"B","a","n","k"," ","o","f"," ","P","u","n","j","a","b">>,
           <<"A","s","k","a","r","i"," ","B","a","n","k">>,
           <<"H","D","F","C">>,
           <<"I","C","I","C","I">>,
           <<"S","B","I">>,
           <<"A","x","i","s"," ","B","a","n","k">>,
           <<"K","o","t","a","k">> >>
detect_bank_name(text) ==
    LET ks == { k \in DOMAIN banks : Contains(UpperStr(text), UpperStr(banks[k])) }
    IN  IF ks = {} THEN <<"U","n","k","n","o","w","n"," ","B","a","n","k">> ELSE banks[SetMin(ks)]

\* the tables of app.py 138-145: those of more than one row, cut to 20 rows
TableRowLimit == 20
PageTables(pages) ==
    LET all == Concat([k \in DOMAIN pages |->
                   [j \in DOMAIN pages[k].tables |-> [page |-> k, table |-> pages[k].tables[j]]]])
        Kept(t) == Len(t.table) > 1
    IN  [k \in DOMAIN SelectSeq(all, Kept) |->
            LET t == SelectSeq(all, Kept)[k]
            IN  [page |-> t.page, rows |-> Len(t.table), data |-> Take(t.table, TableRowLimit)]]

\* app.py 74, 148-162
PdfReturn ==
    /\ pc = "pdf_lines" /\ line_i > Len(lines)
    /\ response' = [status |-> 200, success |-> TRUE, file_name |-> upload.filename,
                    page_count |-> page_count, bank_name |-> detect_bank_name(raw_text),
                    extracted_text |-> raw_text,
                    page_texts |-> [k \in DOMAIN upload.pages |->
                                       [page |-> k, text |-> upload.pages[k].text]],
                    transactions |-> Cap(pdf_transactions),
                    transaction_count |-> Len(Cap(pdf_transactions)),
                    tables |-> PageTables(upload.pages),
                    table_count |-> Len(PageTables(upload.pages))]
    /\ pc' = "done"
    /\ UNCHANGED <<session, tmp_file, invoked, table_locals, doc_locals, line_locals,
                   uuid_seed>>

\* what the observed routine returned, None while it runs or when it raised
Returned ==
    IF service = "parse_table_transactions" THEN (IF pc = "text" THEN <<table_transactions>> ELSE None)
    ELSE IF service = "parse_transactions_regex" THEN (IF pc = "respond" THEN <<result>> ELSE None)
    ELSE IF pc = "done" /\ response.status = 200 THEN <<response>> ELSE None

\* the same call is made again on the same input: what the first call
\* returned is kept for comparison; every call initialises its own locals
Repeat ==
    /\ run = 1 /\ Returned # None
    /\ run' = 2
    /\ first' = Returned[1]
    /\ pc' = "again"
    /\ table_transactions' = <<>> /\ result' = None /\ response' = None
    /\ UNCHANGED <<env, service, upload, tmp_file, invoked, table_locals, raw_text, page_count,
                   ai_reply, line_locals, uuid_seed>>

\* POST /parse-document of the ai-server
Next ==
    \/ ParseDocumentNoFile \/ ParseDocument
    \/ ExtractPdfNoTables \/ ExtractPdfTables
    \/ SkipRow \/ ProcessRow \/ EndOfRows
    \/ RejectTx \/ DuplicateTx \/ EmitTx \/ ReturnTable
    \/ PdfTextFitz \/ PdfTextPlumber \/ PdfTextFails
    \/ ExtractCsv \/ ExtractUnsupported
    \/ NoContent \/ UseTables \/ CallAi
    \/ AiUnavailable \/ AiKeyFileUnreadable \/ AiCallRaises \/ AiBadJson \/ AiNoJson \/ AiJson
    \/ RegexSkipLine \/ RegexDuplicateLine \/ RegexAcceptLine \/ RegexReturn
    \/ Respond \/ RespondInvalid \/ Cleanup

Spec == Init /\ [][Next]_vars

\* the places of the handler of POST /parse-document
HandlerPlaces ==
    {"idle", "extract", "rows", "post", "text", "decide", "ai", "regex", "respond", "cleanup", "done"}

\* the handler moves on to another place
Advance == pc # "done" /\ \E place \in HandlerPlaces \ {pc} : pc' = place

\* POST /parse-document run by the event loop: a handler that has not been
\* left is not abandoned, it goes on to its next place (its loops are over
\* finite lists) until it returns or an exception leaves it
SpecServed == Init /\ [][Next]_vars /\ WF_pc(Advance)

\* the extraction routines, each run twice on the same input: POST /extract of
\* the pdf-service, parse_table_transactions and parse_transactions_regex
NextExtraction ==
    \/ CallTable \/ SkipRow \/ ProcessRow \/ EndOfRows
    \/ RejectTx \/ DuplicateTx \/ EmitTx \/ ReturnTable
    \/ CallRegex \/ RegexSkipLine \/ RegexDuplicateLine \/ RegexAcceptLine \/ RegexReturn
    \/ ExtractNotPdf \/ ExtractPdf \/ PdfReadFails \/ PdfRead
    \/ PdfSkipLine \/ PdfAcceptLine \/ PdfReturn
    \/ Repeat

SpecExtraction == InitExtraction /\ [][NextExtraction]_vars

\* ------------------------------------------------------------------------
\* is_valid_description, check by check                  main.py 110-171
\* ------------------------------------------------------------------------
\* the longest description handed to the validator, in words
MaxWords == 2
ValidatorWords ==
    { <<>>, <<":">>, <<"P","M">>, <<"(",")">>, <<"P","h","o","n","e",":">>, <<"1","2">>, <<"2","0","2","5">>, <<"A","u","g">>, <<"A","u","g","u","s","t">>,
      <<"A","T","M">>, <<"C","a","s","h">>, <<"a","t">>, <<"C","r","e","d","i","t">>, <<"G","r","o","c","e","r","y">>, <<"S","t","o","r","e">>, <<"P","u","r","c","h","a","s","e">> }
\* the descriptions handed to is_valid_description when it is called on its own
ValidatorInputs ==
    { Doc(NameTxt, Join(<<" ">>, ws), <<>>) : ws \in SeqsUpTo(ValidatorWords, MaxWords) }

\* is_valid_description waits for a call
InitValidator ==
    /\ service = "is_valid_description" /\ env = FullEnv
    /\ pc = "idle" /\ run = 1 /\ first = None /\ upload = None
    /\ Fresh

\* desc, as passed by the caller
ValidatorArg == upload.pages[1].text

validator_frame == <<env, service, run, first, tmp_file, invoked, table_locals, doc_locals,
                     line_locals, uuid_seed>>

\* is_valid_description is called on its own
CallValidator ==
    /\ Waiting("is_valid_description")
    /\ \E doc \in Arrivals(ValidatorInputs) : upload' = doc
    /\ pc' = "not_desc"
    /\ UNCHANGED <<validator_frame, response>>

\* `return False` after the named check, or the next check
ValidatorStep(passed, check, next) ==
    /\ IF passed
       THEN pc' = next /\ response' = response
       ELSE pc' = "done" /\ response' = [value |-> FALSE, check |-> check]
    /\ UNCHANGED <<validator_frame, upload>>

\* main.py 115-116
ValidatorNotDesc ==
    /\ service = "is_valid_description" /\ pc = "not_desc"
    /\ ValidatorStep(ValidatorArg # <<>>, "not_desc", "length")

\* main.py 118-122
ValidatorLength ==
    /\ pc = "length"
    /\ ValidatorStep(Len(Strip(ValidatorArg)) >= 6, "length", "letters")

\* main.py 124-126
ValidatorLetters ==
    /\ pc = "letters"
    /\ ValidatorStep(ReSearch(Rep(AZ, 4, -1), Strip(ValidatorArg)), "letters", "month")

\* main.py 128-131
ValidatorMonth ==
    /\ pc = "month"
    /\ ValidatorStep(~ReMatch(month_pattern, Strip(ValidatorArg)), "month", "fragments")

\* main.py 133-161
ValidatorFragments ==
    /\ pc = "fragments"
    /\ ValidatorStep(\A k \in DOMAIN fragment_patterns :
                         ~ReMatch(fragment_patterns[k], Strip(ValidatorArg)),
                     "fragments", "words")

\* main.py 163-171
ValidatorContent ==
    /\ pc = "words"
    /\ pc' = "done"
    /\ response' = IF MeaningfulContent(Strip(ValidatorArg))
                   THEN [value |-> TRUE, check |-> "none"]
                   ELSE [value |-> FALSE, check |-> "words"]
    /\ UNCHANGED <<validator_frame, upload>>

NextValidator ==
    \/ CallValidator
    \/ ValidatorNotDesc \/ ValidatorLength \/ ValidatorLetters \/ ValidatorMonth
    \/ ValidatorFragments \/ ValidatorContent

SpecValidator == InitValidator /\ [][NextValidator]_vars
\* ------------------------------------------------------------------------
\* Properties
\* ------------------------------------------------------------------------
\* a request to POST /parse-document was answered with a ParsedDocument
Answered == response # None /\ response.status = 200

\* C1: every transaction of the list returned for a document has an amount
\* above zero, whichever strategy produced it (tables, regex, or the reply of
\* the AI passed through to parse_document)
AmountsPositive ==
    Answered => \A k \in DOMAIN response.transactions : response.transactions[k].amount > 0

\* C2: no two transactions returned for one document share the dedup key
\* (the first 30 characters of the description, the amount)
NoSharedDedupKey ==
    Answered =>
        \A j, k \in DOMAIN response.transactions :
            LET a == response.transactions[j]
                b == response.transactions[k]
            IN  j # k => <<Take(a.description, DedupPrefixLen), a.amount>>
                         # <<Take(b.description, DedupPrefixLen), b.amount>>

\* C3: the description of every transaction emitted by the table pipeline
\* and by the regex fallback, as emitted, passes is_valid_description
DescriptionsValid ==
    /\ \A k \in DOMAIN final_transactions : is_valid_description(final_transactions[k].description)
    /\ \A k \in DOMAIN rx_transactions : is_valid_description(rx_transactions[k].description)

\* C4: in the second pass over the rows, the open transaction is handed to
\* finalization exactly when a dated row arrives or the rows end while it has
\* an amount, and nothing else is handed over: an open transaction without an
\* amount is dropped at that moment
OpenTxHandedOver ==
    [][ pc = "rows" =>
          LET ends == row_i > Len(tables)
              dated == /\ ~ends
                       /\ ~IsSkippedRow(CleanRow(tables[row_i]))
                       /\ find_date_in_row(CleanRow(tables[row_i])) # NULL
              amount == current_tx # None /\ current_tx.amount # NoAmount
          IN  transactions' = IF (ends \/ dated) /\ amount
                              THEN Append(transactions, current_tx)
                              ELSE transactions ]_vars

\* C4: a dated row without an amount was followed by a dated row with one
\* and the rows have ended: only the second transaction was handed over
NoAmountTxDiscarded ==
    /\ pc = "post" /\ tables = <<RowNoAmount, RowDebit>>
    /\ Len(transactions) = 1 /\ transactions[1].amount = 50000

\* C5: when the tables gave transactions, neither the AI nor the regex
\* strategy is invoked and the list returned is that list; the result of the
\* text strategy is returned only when the tables gave none
TableResultAuthoritative ==
    /\ table_transactions # <<>> =>
          invoked \cap {"parse_transactions_with_ai", "parse_transactions_regex"} = {}
    /\ Answered =>
          /\ table_transactions # <<>> => response.transactions = table_transactions
          /\ table_transactions = <<>> =>
                /\ "parse_transactions_with_ai" \in invoked
                /\ response.transactions = IF "transactions" \in DOMAIN result
                                           THEN result.transactions ELSE <<>>

\* C5: a PDF whose table gave a transaction and whose text holds a line the
\* regex strategy would accept was answered
TableResultUsed ==
    /\ Answered /\ table_transactions # <<>> /\ raw_text # <<>>
    /\ \E k \in DOMAIN SplitLines(raw_text) : LineRead(Strip(SplitLines(raw_text)[k])) # <<>>

\* C6: when the AI is unavailable or fails (no key, no client, the call
\* raises, a reply without a JSON object or with one that does not parse),
\* parse_transactions_with_ai returns the result of parse_transactions_regex
\* on the same text and does not raise
AiFailureFallsBack ==
    ( /\ "parse_transactions_with_ai" \in invoked
      /\ pc \in {"respond", "cleanup", "done"}
      /\ \/ ai_reply = None
         \/ ~HasJsonObject(ai_reply.content)
         \/ ai_reply.parsed = <<>> )
    => /\ "parse_transactions_regex" \in invoked
       /\ result # None
       /\ result.transactions = Take(rx_transactions, MaxTransactions)

\* C7: whenever the tables of a PDF gave at least one transaction and no
\* library raised while the text was read, the request is answered with
\* those transactions, also when the text is empty
TableTransactionsReturned ==
    ( /\ response # None /\ table_transactions # <<>>
      /\ response # Error(400, "Failed to read PDF") )
    => response.status = 200 /\ response.transactions = table_transactions

\* C8: parse_transactions_regex and the pdf-service's
\* extract_transactions_from_text return at most 100 transactions, the first
\* 100 of those accepted, in the order of the lines
OutputCapped ==
    /\ (pc = "respond" /\ "parse_transactions_regex" \in invoked) =>
          /\ Len(result.transactions) <= 100
          /\ Len(result.transactions) = Min(100, Len(rx_transactions))
          /\ \A k \in DOMAIN result.transactions : result.transactions[k] = rx_transactions[k]
    /\ (service = "pdf-service" /\ pc = "done" /\ response.status = 200) =>
          /\ Len(response.transactions) <= 100
          /\ Len(response.transactions) = Min(100, Len(pdf_transactions))
          /\ \A k \in DOMAIN response.transactions :
                response.transactions[k] = pdf_transactions[k]

\* C8: parse_transactions_regex has returned after accepting more than 100 lines
MoreThanCapAccepted ==
    pc = "respond" /\ "parse_transactions_regex" \in invoked /\ Len(rx_transactions) > 100

\* C9 as stated: the same call made again on the same input returns what the
\* first call returned, the same transactions with the same values of every
\* field in the same order
SameOutput == (run = 2 /\ Returned # None) => Returned[1] = first

\* C9 as amended: the same call made again on the same input returns what the
\* first call returned but for the id of each transaction of the pdf-service,
\* which is a new uuid4 at every call
SameOutputButIds ==
    (run = 2 /\ Returned # None) =>
        IF service = "pdf-service"
        THEN LET NoIds(r) ==
                     [r EXCEPT !.transactions =
                                  [k \in DOMAIN r.transactions |->
                                      [r.transactions[k] EXCEPT !.id = None]]]
             IN  NoIds(Returned[1]) = NoIds(first)
        ELSE Returned[1] = first

\* C9: the pdf-service has answered the second of two equal requests with a
\* transaction whose id is not the id it had in the first answer
SecondAnswerNewIds ==
    /\ service = "pdf-service" /\ run = 2 /\ Returned # None
    /\ response.transactions # <<>>
    /\ response.transactions[1].id # first.transactions[1].id
    /\ [response.transactions[1] EXCEPT !.id = None]
         = [first.transactions[1] EXCEPT !.id = None]

\* C10: a document whose text holds "Statement Period: 01/12/2024 -
\* 31/12/2024" is answered with a detected period that starts on 2024-12-01
\* and ends on 2024-12-31, whether the tables or the regex strategy gave the
\* transactions
StatementPeriodDetected ==
    ( /\ Answered /\ response.transactions # <<>>
      /\ Contains(raw_text, LinePeriod)
      /\ table_transactions # <<>> \/ "parse_transactions_regex" \in invoked )
    => /\ {"start_date", "end_date"} \subseteq DOMAIN response.detected_period
       /\ response.detected_period.start_date = <<"2","0","2","4","-","1","2","-","0","1">>
       /\ response.detected_period.end_date = <<"2","0","2","4","-","1","2","-","3","1">>

\* the criteria of C11, stated on the characters of the stripped text
\* a run of at least n consecutive letters
HasLetterRun(s, n) ==
    \E i \in 1..(Len(s) - n + 1) : \A k \in i..(i + n - 1) : s[k] \in Letter
\* the number of words (maximal runs of letters) of at least n letters
WordsOfLength(s, n) ==
    Cardinality({ i \in 1..(Len(s) - n + 1) :
                    /\ i = 1 \/ s[i - 1] \notin Letter
                    /\ \A k \in i..(i + n - 1) : s[k] \in Letter })
MonthNames ==
    { <<"j","a","n">>, <<"j","a","n","u","a","r","y">>, <<"f","e","b">>, <<"f","e","b","r","u","a","r","y">>, <<"m","a","r">>, <<"m","a","r","c","h">>, <<"a","p","r">>, <<"a","p","r","i","l">>,
      <<"m","a","y">>, <<"j","u","n">>, <<"j","u","n","e">>, <<"j","u","l">>, <<"j","u","l","y">>, <<"a","u","g">>, <<"a","u","g","u","s","t">>, <<"s","e","p">>, <<"s","e","p","t">>,
      <<"s","e","p","t","e","m","b","e","r">>, <<"o","c","t">>, <<"o","c","t","o","b","e","r">>, <<"n","o","v">>, <<"n","o","v","e","m","b","e","r">>, <<"d","e","c">>, <<"d","e","c","e","m","b","e","r">> }
\* a month name and nothing else but, after optional whitespace, up to four digits
StandaloneMonth(s) ==
    \E m \in MonthNames :
        /\ Len(s) >= Len(m) /\ LowerStr(SubSeq(s, 1, Len(m))) = m
        /\ \E j \in (Len(m) + 1)..(Len(s) + 1) :
              /\ \A k \in (Len(m) + 1)..(j - 1) : s[k] \in Space
              /\ \A k \in j..Len(s) : s[k] \in Digit
              /\ Len(s) - j + 1 <= 4
MatchesFragment(s) == \E k \in DOMAIN fragment_patterns : ReMatch(fragment_patterns[k], s)
\* the first check of C11 the text fails, in the order of the claim
FirstFailedCheck(text) ==
    LET s == Strip(text)
    IN  IF text = <<>> THEN "not_desc"
        ELSE IF Len(s) < 6 THEN "length"
        ELSE IF ~HasLetterRun(s, 4) THEN "letters"
        ELSE IF StandaloneMonth(s) THEN "month"
        ELSE IF MatchesFragment(s) THEN "fragments"
        ELSE IF ~(HasLetterRun(s, 5) \/ WordsOfLength(s, 3) >= 2) THEN "words"
        ELSE "none"

AtDatedRow ==
    /\ pc = "rows" /\ row_i <= Len(tables)
    /\ ~RowRead(tables[row_i]).skipped /\ RowRead(tables[row_i]).tx_date # NULL
\* the amount the row at hand holds in the 0-based column col, NoAmount if none
AmountInCol(col) ==
    LET amounts == RowRead(tables[row_i]).amounts
        ks == { k \in DOMAIN amounts : amounts[k][1] = col }
    IN  IF col < 0 \/ ks = {} THEN NoAmount ELSE amounts[SetMin(ks)][2]
\* the first amount of the row at hand, in column order, that is outside the
\* balance column and below the ceiling, NoAmount if none
FirstPlainAmount ==
    LET amounts == RowRead(tables[row_i]).amounts
        ks == { k \in DOMAIN amounts :
                  amounts[k][1] # cols.balance /\ amounts[k][2] < CeilingCents }
    IN  IF ks = {} THEN NoAmount ELSE amounts[SetMin(ks)][2]

\* C12: the transaction a dated row opens takes the row's amount in the debit
\* column, as an expense, when a debit column was inferred and holds one;
\* else the row's amount in the credit column, as income, when a credit column
\* was inferred and holds one; else the first amount of the row outside the
\* balance column and below the ceiling
DebitBeforeCreditBeforeFirst ==
    [][ AtDatedRow =>
          IF AmountInCol(cols.debit) # NoAmount
          THEN current_tx'.amount = AmountInCol(cols.debit) /\ current_tx'.type = "expense"
          ELSE IF AmountInCol(cols.credit) # NoAmount
          THEN current_tx'.amount = AmountInCol(cols.credit) /\ current_tx'.type = "income"
          ELSE current_tx'.amount = FirstPlainAmount ]_vars

\* C13: a transaction of the table pipeline is emitted with the direction it
\* was given when its amount was assigned (expense for the debit column,
\* income for the credit column), whatever its description holds
DirectionKept ==
    [][ ( /\ pc = "post" /\ tx_i <= Len(transactions)
          /\ Len(final_transactions') = Len(final_transactions) + 1 )
        => final_transactions'[Len(final_transactions')].type = transactions[tx_i].type ]_vars

\* C14: every transaction emitted by parse_table_transactions has an amount
\* above zero and below the sanity ceiling of 1,000,000, whichever row and
\* column the amount came from
TableAmountsBelowCeiling ==
    \A k \in DOMAIN final_transactions :
        final_transactions[k].amount > 0 /\ final_transactions[k].amount < CeilingCents

\* the second pass is at a row that is not skipped and holds no date
AtContinuationRow ==
    /\ pc = "rows" /\ row_i <= Len(tables)
    /\ ~RowRead(tables[row_i]).skipped /\ RowRead(tables[row_i]).tx_date = NULL
\* the first amount of the row at hand, in column order, outside the balance
\* column, NoAmount if none
FirstAmountOffBalance ==
    LET amounts == RowRead(tables[row_i]).amounts
        ks == { k \in DOMAIN amounts : amounts[k][1] # cols.balance }
    IN  IF ks = {} THEN NoAmount ELSE amounts[SetMin(ks)][2]
\* the dated rows, not skipped, that the second pass has gone through
DatedRowsBefore ==
    { k \in 1..Min(row_i - 1, Len(tables)) :
        ~RowRead(tables[k]).skipped /\ RowRead(tables[k]).tx_date # NULL }

\* C15: the open transaction is the one opened by the last dated row; a row
\* without a date appends its text fragments to it, in order, and gives it the
\* row's first amount outside the balance column only if it has no amount yet;
\* the row changes nothing else, and without an open transaction it changes
\* nothing at all
ContinuationExtendsOpenTx ==
    /\ [](pc = "rows" =>
             IF DatedRowsBefore = {} THEN current_tx = None
             ELSE /\ current_tx # None
                  /\ current_tx.date = RowRead(tables[SetMax(DatedRowsBefore)]).tx_date)
    /\ [][ AtContinuationRow =>
             /\ transactions' = transactions
             /\ IF current_tx = None THEN current_tx' = None
                ELSE /\ current_tx'.description_parts
                          = current_tx.description_parts \o RowRead(tables[row_i]).text_parts
                     /\ current_tx'.date = current_tx.date
                     /\ current_tx'.type = current_tx.type
                     /\ current_tx'.amount = IF current_tx.amount # NoAmount
                                             THEN current_tx.amount
                                             ELSE FirstAmountOffBalance ]_vars

\* C15: a dated row with the amount 500 was followed by a row of text and a
\* row with the amount 250: one transaction with both fragments and the
\* amount 500 was closed
AmountKeptByContinuation ==
    /\ pc = "post" /\ tables = <<RowDebit, RowText, RowAmount>>
    /\ Len(transactions) = 1
    /\ transactions[1].description_parts = <<RowDebit[2], RowText[2]>>
    /\ transactions[1].amount = 50000

\* the rows of the table that carry the header signature of C16
SignatureRows ==
    { k \in DOMAIN tables :
        \E w \in { <<"d","a","t","e">>, <<"d","e","s","c","r","i","p","t","i","o","n">>, <<"d","e","b","i","t">> } :
            Contains(LowerStr(Join(<<" ">>, tables[k])), w) }
\* the role C16 gives the column of a header cell
RoleOfHeaderCell(cell) ==
    LET Has(w) == Contains(LowerStr(cell), w)
    IN  IF Has(<<"d","e","b","i","t">>) \/ Has(<<"w","i","t","h","d","r","a","w","a","l">>) THEN "debit"
        ELSE IF Has(<<"c","r","e","d","i","t">>) \/ Has(<<"d","e","p","o","s","i","t">>) THEN "credit"
        ELSE IF Has(<<"b","a","l","a","n","c","e">>) THEN "balance"
        ELSE "none"
\* the 0-based column of the role in the header row, -1 when unknown
ColumnOfRole(header, role) ==
    LET ks == { k \in DOMAIN header : RoleOfHeaderCell(header[k]) = role }
    IN  IF ks = {} THEN -1 ELSE SetMax(ks) - 1

\* C16: while the rows are reconstructed and afterwards the column roles are
\* those read off the first row that carries the header signature (debit or
\* withdrawal, credit or deposit, balance), all three unknown when no row
\* carries it; they are fixed before the first row is reconstructed and no
\* row changes them
ColumnRolesFixed ==
    /\ [](pc \in {"rows", "post"} =>
             IF SignatureRows = {} THEN cols = [debit |-> -1, credit |-> -1, balance |-> -1]
             ELSE LET header == tables[SetMin(SignatureRows)]
                  IN  cols = [debit |-> ColumnOfRole(header, "debit"),
                              credit |-> ColumnOfRole(header, "credit"),
                              balance |-> ColumnOfRole(header, "balance")])
    /\ [][pc = "rows" => cols' = cols]_vars

\* C16: the header row came after a row with an amount in the credit column:
\* the roles were known when that row was reconstructed
RolesKnownBeforeFirstRow ==
    /\ pc = "post" /\ tables = <<RowCredit, RowHeader>>
    /\ cols = [debit |-> 2, credit |-> 3, balance |-> -1]
    /\ Len(transactions) = 1 /\ transactions[1].type = "income"

\* the boilerplate keywords of C17
BoilerplateWords ==
    { <<"d","a","t","e">>, <<"d","e","s","c","r","i","p","t","i","o","n">>, <<"p","a","r","t","i","c","u","l","a","r">>, <<"d","e","b","i","t">>, <<"c","r","e","d","i","t">>, <<"n","a","r","r","a","t","i","o","n">>,
      <<"o","p","e","n","i","n","g">>, <<"c","l","o","s","i","n","g">>, <<"b","a","l","a","n","c","e"," ","b","/","f">>, <<"t","o","t","a","l">>, <<"p","a","g","e">> }
\* the row holds a boilerplate keyword or nothing but empty cells
Boilerplate(row) ==
    \/ \E w \in BoilerplateWords :
          Contains(LowerStr(Join(<<" ">>, [k \in DOMAIN row |-> Strip(row[k])])), w)
    \/ \A k \in DOMAIN row : Strip(row[k]) = <<>>

\* C17: a row that holds a boilerplate keyword, or only empty cells, changes
\* neither the open transaction (its date, fragments, amount and direction)
\* nor the list of closed transactions, and does not close the open one
SkippedRowChangesNothing ==
    [][ (pc = "rows" /\ row_i <= Len(tables) /\ Boilerplate(tables[row_i]))
        => current_tx' = current_tx /\ transactions' = transactions ]_vars

\* C17: a row "Total" with an amount came between a dated row and a row of
\* text: the text went to the transaction of the dated row, whose amount is
\* that of the dated row
TotalRowSkipped ==
    /\ pc = "post" /\ tables = <<RowDebit, RowTotal, RowText>>
    /\ Len(transactions) = 1
    /\ transactions[1].description_parts = <<RowDebit[2], RowText[2]>>
    /\ transactions[1].amount = 50000

\* the numeric tokens of a line, left to right: the maximal runs of digits,
\* thousands separators and decimal points
NumericTokens(line) ==
    LET Num(k) == line[k] \in Digit \cup {",", "."}
        IsStart(k) == Num(k) /\ (k = 1 \/ ~Num(k - 1))
        st == SelectSeq(Indexes(line), IsStart)
        End(k) == SetMax({ e \in k..Len(line) : \A j \in k..e : Num(j) })
    IN  [j \in 1..Len(st) |-> SubSeq(line, st[j], End(st[j]))]
\* the value of a numeric token, in hundredths
TokenValue(token) == Cents(RStripSet(Without(token, {","}), {"."}))
\* the line at hand was accepted and its transaction appended
LineAppended == Len(rx_transactions') = Len(rx_transactions) + 1

\* C18: the amount of the transaction of an accepted line is the last but one
\* of the numeric tokens of the line, the only token when there is one, and a
\* line without a numeric token gives no transaction
AmountIsLastButOneToken ==
    [][ (pc = "regex" /\ line_i <= Len(lines)) =>
          LET tokens == NumericTokens(Line)
          IN  /\ LineAppended =>
                    rx_transactions'[Len(rx_transactions')].amount
                        = TokenValue(tokens[IF Len(tokens) >= 2 THEN Len(tokens) - 1 ELSE 1])
              /\ tokens = <<>> => rx_transactions' = rx_transactions ]_vars

\* the entries of the ordered keyword table cats that have a word inside the
\* text d, letter case set aside
CategoryHits(cats, d) ==
    { k \in DOMAIN cats : \E w \in DOMAIN cats[k].words : Contains(LowerStr(d), cats[k].words[w]) }

\* c is the name of the earliest entry of cats with a word inside d, and
\* "Other" when no entry has one
IsFirstCategory(cats, d, c) ==
    /\ (c = "Other") <=> (CategoryHits(cats, d) = {})
    /\ \A k \in DOMAIN cats :
          (c = cats[k].name) <=>
              (k \in CategoryHits(cats, d) /\ \A j \in 1..(k - 1) : j \notin CategoryHits(cats, d))

\* C19 as stated: the category of every emitted transaction, of the table
\* pipeline and of the line pipeline alike, is the first of Food, Shopping,
\* Transport, Utilities, Transfer with a keyword in its description, and
\* "Other" when there is none
CategoryFirstOfFive ==
    /\ \A k \in DOMAIN final_transactions :
          IsFirstCategory(TableCategories, final_transactions[k].description,
                          final_transactions[k].category)
    /\ \A k \in DOMAIN rx_transactions :
          IsFirstCategory(TableCategories, rx_transactions[k].description,
                          rx_transactions[k].category)

\* C19: the category of an emitted transaction is the first entry of the
\* keyword table of its own pipeline with a keyword in the description, and
\* "Other" when there is none: Food, Shopping, Transport, Utilities, Transfer
\* over the cleaned description before its cut to 100 characters in the table
\* pipeline; Food, Shopping, Transport, Utilities with shorter keyword lists
\* over the emitted description in the line pipeline
CategoryFirstInOwnTable ==
    /\ [][ (pc = "regex" /\ line_i <= Len(lines) /\ LineAppended)
           => IsFirstCategory(RegexCategories,
                              rx_transactions'[Len(rx_transactions')].description,
                              rx_transactions'[Len(rx_transactions')].category) ]_vars
    /\ [][ ( /\ pc = "post" /\ tx_i <= Len(transactions)
             /\ Len(final_transactions') = Len(final_transactions) + 1 )
           => IsFirstCategory(TableCategories, TableDescription(transactions[tx_i]),
                              final_transactions'[Len(final_transactions')].category) ]_vars

\* a description with keywords of two categories was emitted under the
\* earlier one
EarliestOfTwoCategories ==
    \E k \in DOMAIN final_transactions :
        /\ Cardinality(CategoryHits(TableCategories, final_transactions[k].description)) >= 2
        /\ final_transactions[k].category = "Food"

\* the finally block leaves the answer of the request as it is
CleanupKeepsResponse == [][pc = "cleanup" => response' = response]_vars

\* C20 as stated: once the temporary file of a request exists it is removed in
\* the end, whichever way the request goes, and the clean-up does not change
\* the answer
TempFileEventuallyRemoved ==
    /\ (tmp_file = "exists") ~> (tmp_file = "removed")
    /\ CleanupKeepsResponse

\* C20: once the temporary file of a request exists, the finally block is
\* reached whichever way the request goes (return, rejected file type, failed
\* extraction, empty text, exception of a parsing strategy) and tries to
\* delete the file: the request ends with the file removed, or left behind
\* when os.unlink raised; the file is touched nowhere else, and the clean-up,
\* failed or not, does not change the answer
TempFileCleanupRuns ==
    /\ (tmp_file = "exists") ~> (pc = "done" /\ tmp_file \in {"removed", "left"})
    /\ [](pc = "done" => tmp_file # "exists")
    /\ [][tmp_file' # tmp_file => (pc \in {"idle", "again"} \/ pc = "cleanup")]_vars
    /\ CleanupKeepsResponse

\* a request was refused, the deletion of its temporary file failed, and the
\* refusal is still the answer
ErrorKeptWhenDeletionFails ==
    /\ service = "ai-server" /\ pc = "done" /\ tmp_file = "left"
    /\ response = Error(400, "Could not extract text from document")
====
